---- MODULE Spec2Model ----
(***************************************************************************)
(* Model of the sweat_voter server's in-memory store (DataServer): the     *)
(* nickname ledger (vote / delete / protection update), the permission     *)
(* evaluation between an acting profile and a target profile, and the      *)
(* construction of the store from a roster document and an ID map.         *)
(***************************************************************************)
EXTENDS Integers, Sequences, FiniteSets, TLC

(***************************************************************************)
(* Values                                                                  *)
(***************************************************************************)

\* Option<T>: None is the empty set, Some(x) the set holding x.
None == {}
Some(x) == {x}
unwrap(option) == CHOOSE x \in option : TRUE

\* the newtypes ProfilID(u32) and ClassID(u32)
ProfilID(x) == x
ClassID(x) == x

\* InteractionPermission, the 4-level interaction scope.
InteractionPermission == {"Forbidden", "YourSelf", "SameClass", "AnyBody"}

\* A String is modelled as a sequence of characters; " " is the whitespace
\* character, every other element stands for a run of non-blank characters.
IsWhitespace(c) == c = " "

RECURSIVE TrimStart(_)
TrimStart(s) ==
    IF s = <<>> \/ ~IsWhitespace(Head(s)) THEN s ELSE TrimStart(Tail(s))

RECURSIVE TrimEnd(_)
TrimEnd(s) ==
    IF s = <<>> \/ ~IsWhitespace(s[Len(s)]) THEN s
    ELSE TrimEnd(SubSeq(s, 1, Len(s) - 1))

\* str::trim().to_string()
Trim(s) == TrimEnd(TrimStart(s))

Ace == <<"Ace">>
Champ == <<"Champ">>

(***************************************************************************)
(* State                                                                   *)
(***************************************************************************)
VARIABLES
    id_to_profil,              \* HashMap<ProfilID, Profil>
    name_to_id,                \* HashMap<String, ProfilID>
    classes,                   \* HashMap<ClassID, Class>
    free_profil_id_beginning,  \* u32
    free_class_id_beginning,   \* u32
    nick_name_proposition,     \* HashMap<ProfilID, Vec<NickNameProposition>>
    call,                      \* the operation executed last, with its arguments
    before,                    \* nick_name_proposition as that operation found it
    calls,                     \* how many operations have been executed
    pc,                        \* "boot" until the store is built, then "serving"
    files,                     \* the documents on disk
    ret,                       \* what that operation returned
    dirty,                     \* the dirty flag of each MutationTracker
    history,                   \* the ids given to names so far, and the last start
    sync                       \* the store lock, and where each thread stands

store == <<id_to_profil, name_to_id, classes, free_profil_id_beginning,
           free_class_id_beginning>>
vars == <<id_to_profil, name_to_id, classes, free_profil_id_beginning,
          free_class_id_beginning, nick_name_proposition, call, before, calls,
          pc, files, ret, dirty, history, sync>>

(***************************************************************************)
(* MutationTracker                                                         *)
(***************************************************************************)

\* MutationTracker::new and Default::default on the four containers: clean
Clean == [id_to_profil |-> FALSE, name_to_id |-> FALSE, classes |-> FALSE,
          nick_name_proposition |-> FALSE]

\* a mutable access to a container (insert, remove, get_mut, entry): the
\* flags it leaves
mark_dirty(flags, container) == [flags EXCEPT ![container] = TRUE]

\* clear_dirty that answers without resetting the flag
clear_dirty_keeping(flags, container) ==
    [was_dirty |-> flags[container], flags |-> flags]

\* MutationTracker::clear_dirty: whether the container was dirty, and the
\* flags it leaves
clear_dirty(flags, container) ==
    [was_dirty |-> flags[container], flags |-> [flags EXCEPT ![container] = FALSE]]

(***************************************************************************)
(* Permission model                                                        *)
(***************************************************************************)

\* the class test with a shortcut for a == b
are_in_same_class_or_same_profil(a, b) ==
    \/ a = b
    \/ \E c \in DOMAIN classes :
            a \in classes[c].profiles /\ b \in classes[c].profiles

\* check if two profils share the same class
are_in_same_class(a, b) ==
    \E c \in DOMAIN classes :
        a \in classes[c].profiles /\ b \in classes[c].profiles

is_action_allowed_between(interaction_permission, editor, target) ==
    CASE interaction_permission = "Forbidden" -> FALSE
      [] interaction_permission = "YourSelf"  -> editor = target
      [] interaction_permission = "SameClass" -> are_in_same_class(editor, target)
      [] interaction_permission = "AnyBody"   -> TRUE

get_permission(profil_id) ==
    IF profil_id \in DOMAIN id_to_profil
    THEN Some(id_to_profil[profil_id].permissions)
    ELSE None

(***************************************************************************)
(* Nickname ledger                                                         *)
(***************************************************************************)

\* position(|n| n.proposition == text): the first index holding that text, 0 if none
position(nicknames, text) ==
    IF \E i \in 1..Len(nicknames) : nicknames[i].proposition = text
    THEN CHOOSE i \in 1..Len(nicknames) :
            /\ nicknames[i].proposition = text
            /\ \A j \in 1..(i - 1) : nicknames[j].proposition # text
    ELSE 0

\* retain with the test dropped: nobody is removed
retain_everyone(votes, voter) == votes

\* Vec::retain(|p| *p != voter)
retain_not(votes, voter) == SelectSeq(votes, LAMBDA p : p # voter)

\* the loop body with retain moved under the text test: the voter's other
\* votes for the target stay
vote_visit_retain_on_match_only(nickname, voter, proposition) ==
    IF nickname.proposition = proposition
    THEN [nickname EXCEPT !.votes = Append(retain_not(@, voter), voter)]
    ELSE nickname

\* the loop body that makes the voter the author of the proposition voted for
vote_visit_taking_authorship(nickname, voter, proposition) ==
    LET kept == retain_not(nickname.votes, voter)
    IN  IF nickname.proposition = proposition
        THEN [nickname EXCEPT !.votes = Append(kept, voter), !.author = voter]
        ELSE [nickname EXCEPT !.votes = kept]

\* the body of the loop of vote over one proposition
vote_visit(nickname, voter, proposition) ==
    LET kept == retain_not(nickname.votes, voter)
    IN  [nickname EXCEPT !.votes = IF nickname.proposition = proposition
                                   THEN Append(kept, voter)
                                   ELSE kept]

\* vote with the found flag never set: a proposition is pushed every time
vote_list_always_push(nicknames, voter, proposition) ==
    Append([i \in 1..Len(nicknames) |-> vote_visit(nicknames[i], voter, proposition)],
           [author |-> voter, proposition |-> proposition,
            votes |-> <<voter>>, protected |-> FALSE])

\* the list of one target after the loop and the push of vote
vote_list(nicknames, voter, proposition) ==
    LET visited == [i \in 1..Len(nicknames) |->
                        vote_visit(nicknames[i], voter, proposition)]
        found == \E i \in 1..Len(nicknames) :
                        nicknames[i].proposition = proposition
    IN  IF found THEN visited
        ELSE Append(visited, [author |-> voter, proposition |-> proposition,
                              votes |-> <<voter>>, protected |-> FALSE])

\* the early returns of vote without the test of the trimmed text
vote_refused_keeping_blank(voter, target, proposition) ==
    LET found_permissions == get_permission(voter)
    IN  \/ found_permissions = None
        \/ ~is_action_allowed_between(unwrap(found_permissions).vote, voter, target)

\* the early returns of vote: no Permissions for the voter, a vote scope that
\* does not reach the target, a proposition that is empty once trimmed
vote_refused(voter, target, proposition) ==
    LET found_permissions == get_permission(voter)
    IN  \/ found_permissions = None
        \/ ~is_action_allowed_between(unwrap(found_permissions).vote, voter, target)
        \/ proposition = <<>>

\* the Vacant arm without its guard: entry(target).or_insert(vec![])
vacant_entry_always_insertable(target) == TRUE

\* the guard of the Vacant arm of vote: a list is created for a profil only
vacant_entry_insertable(target) == target \in DOMAIN id_to_profil

\* vote that visits the list of every target: the voter's votes for the other
\* targets are withdrawn too
vote_visiting_every_list(voter, target, text) ==
    LET proposition == Trim(text)
    IN  IF vote_refused(voter, target, proposition) THEN nick_name_proposition
        ELSE IF target \in DOMAIN nick_name_proposition
        THEN [t \in DOMAIN nick_name_proposition |->
                IF t = target
                THEN vote_list(nick_name_proposition[t], voter, proposition)
                ELSE [i \in 1..Len(nick_name_proposition[t]) |->
                        [nick_name_proposition[t][i] EXCEPT
                            !.votes = retain_not(@, voter)]]]
        ELSE IF vacant_entry_insertable(target)
        THEN (target :> vote_list(<<>>, voter, proposition)) @@ nick_name_proposition
        ELSE nick_name_proposition

\* DataServer::vote: the nicknames container it leaves
vote(voter, target, text) ==
    LET proposition == Trim(text)
    IN  IF vote_refused(voter, target, proposition) THEN nick_name_proposition
        ELSE IF target \in DOMAIN nick_name_proposition
        THEN [nick_name_proposition EXCEPT
                ![target] = vote_list(@, voter, proposition)]
        ELSE IF vacant_entry_insertable(target)
        THEN (target :> vote_list(<<>>, voter, proposition)) @@ nick_name_proposition
        ELSE nick_name_proposition

\* Vec::swap_remove(i): the last element takes the place of the removed one
swap_remove(nicknames, i) ==
    [j \in 1..(Len(nicknames) - 1) |->
        IF j = i THEN nicknames[Len(nicknames)] ELSE nicknames[j]]

\* the removal test without the author's right
delete_permitted_scope_only(is_allowed_to_delete, can_by_pass_protect, nickname, deleter) ==
    /\ is_allowed_to_delete
    /\ (~nickname.protected \/ can_by_pass_protect)

\* the removal test without the protection
delete_permitted_unprotected(is_allowed_to_delete, can_by_pass_protect, nickname, deleter) ==
    is_allowed_to_delete \/ nickname.author = deleter

\* the test that guards the removal in delete
delete_permitted(is_allowed_to_delete, can_by_pass_protect, nickname, deleter) ==
    /\ (is_allowed_to_delete \/ nickname.author = deleter)
    /\ (~nickname.protected \/ can_by_pass_protect)

\* DataServer::delete: the nicknames container it leaves
delete(deleter, target, nickname) ==
    LET found_permissions == get_permission(deleter)
        permissions == unwrap(found_permissions)
    IN  IF found_permissions = None THEN nick_name_proposition
        ELSE
        LET is_allowed_to_delete ==
                is_action_allowed_between(permissions.delete, deleter, target)
            can_by_pass_protect ==
                is_action_allowed_between(permissions.protect_nickname, deleter, target)
        IN  IF target \notin DOMAIN nick_name_proposition THEN nick_name_proposition
            ELSE
            LET nicknames == nick_name_proposition[target]
                i == position(nicknames, nickname)
            IN  IF i = 0 THEN nick_name_proposition
                ELSE IF delete_permitted(is_allowed_to_delete, can_by_pass_protect,
                                         nicknames[i], deleter)
                THEN [nick_name_proposition EXCEPT ![target] = swap_remove(@, i)]
                ELSE nick_name_proposition

\* the protection update without the permission gate
update_nickname_protection_ungated(editor, target, nickname, protection_statut) ==
    IF target \notin DOMAIN nick_name_proposition THEN nick_name_proposition
    ELSE LET i == position(nick_name_proposition[target], nickname)
         IN  IF i = 0 THEN nick_name_proposition
             ELSE [nick_name_proposition EXCEPT
                    ![target][i].protected = protection_statut]

\* DataServer::update_nickname_protection (called by update_protection_nickname):
\* gated by the protect scope between editor and target, a no-op when the
\* proposition is not found
update_nickname_protection(editor, target, nickname, protection_statut) ==
    LET found_permissions == get_permission(editor)
        permissions == unwrap(found_permissions)
    IN  IF found_permissions = None THEN nick_name_proposition
        ELSE IF ~is_action_allowed_between(permissions.protect_nickname, editor, target)
        THEN nick_name_proposition
        ELSE IF target \notin DOMAIN nick_name_proposition THEN nick_name_proposition
        ELSE
        LET i == position(nick_name_proposition[target], nickname)
        IN  IF i = 0 THEN nick_name_proposition
            ELSE [nick_name_proposition EXCEPT
                    ![target][i].protected = protection_statut]

\* vote marking the tracker only when it inserts a list: the in-place change
\* of a list reached through an Occupied entry goes unmarked
vote_flags_on_insert_only(voter, target, text) ==
    IF vote_refused(voter, target, Trim(text)) THEN dirty
    ELSE IF target \notin DOMAIN nick_name_proposition /\ vacant_entry_insertable(target)
    THEN mark_dirty(dirty, "nick_name_proposition")
    ELSE dirty

\* the flags vote leaves: nick_name_proposition.entry(target) is a mutable
\* access, reached once the early returns are passed
vote_flags(voter, target, text) ==
    IF vote_refused(voter, target, Trim(text)) THEN dirty
    ELSE mark_dirty(dirty, "nick_name_proposition")

\* the flags delete leaves: nick_name_proposition.get_mut(&target) is reached
\* once the deleter has Permissions
delete_flags(deleter, target, nickname) ==
    IF get_permission(deleter) = None THEN dirty
    ELSE mark_dirty(dirty, "nick_name_proposition")

\* the flags update_nickname_protection leaves: the list is reached mutably
\* once the protect scope of the editor reaches the target
update_nickname_protection_flags(editor, target, nickname, protection_statut) ==
    LET found_permissions == get_permission(editor)
    IN  IF found_permissions = None THEN dirty
        ELSE IF ~is_action_allowed_between(unwrap(found_permissions).protect_nickname,
                                           editor, target)
        THEN dirty
        ELSE mark_dirty(dirty, "nick_name_proposition")

(***************************************************************************)
(* Construction of the store from the roster and the ID map                *)
(***************************************************************************)

\* an empty HashMap
EmptyMap == <<>>

Max(a, b) == IF a >= b THEN a ELSE b

\* fold(0, |acc, (id, _)| u32::max(id, acc)) over the keys of a mapping
RECURSIVE max_id_of(_)
max_id_of(ids) ==
    IF ids = {} THEN 0
    ELSE LET x == CHOOSE y \in ids : TRUE IN Max(x, max_id_of(ids \ {x}))

last_id_used(mapping) == max_id_of(DOMAIN mapping)

\* HashMap::from_iter(mapping.into_iter().map(|(id, name)| (name, id))): for a
\* name the mapping records under several ids, the id iterated last stays, and
\* the order of iteration of a HashMap is not fixed: any of these ids may stay
raw_name_to_id_maps(mapping) ==
    {raw \in [{mapping[id] : id \in DOMAIN mapping} -> DOMAIN mapping] :
        \A name \in DOMAIN raw : mapping[raw[name]] = name}

\* the profil loop with get_profil_id ignoring the raw map: every profil of the
\* roster gets the next free id
RECURSIVE load_profils_always_fresh(_, _, _, _)
load_profils_always_fresh(profiles, raw, last, loaded) ==
    IF profiles = <<>>
    THEN [raw |-> raw, last |-> last, id_to_profil |-> loaded]
    ELSE LET profil == Head(profiles)
             id == last + 1
         IN  load_profils_always_fresh(Tail(profiles),
                                       (profil.identity.name :> id) @@ raw,
                                       last + 1, (id :> profil) @@ loaded)

\* the profil loop of new: get_profil_id allocates last + 1 for a name the raw
\* map lacks and records it; from_iter keeps the last profil of an id
RECURSIVE load_profils(_, _, _, _)
load_profils(profiles, raw, last, loaded) ==
    IF profiles = <<>>
    THEN [raw |-> raw, last |-> last, id_to_profil |-> loaded]
    ELSE LET profil == Head(profiles)
             name == profil.identity.name
             known == name \in DOMAIN raw
             id == IF known THEN raw[name] ELSE last + 1
         IN  load_profils(Tail(profiles),
                          IF known THEN raw ELSE (name :> id) @@ raw,
                          IF known THEN last ELSE last + 1,
                          (id :> profil) @@ loaded)

\* the member set of a class: the names the raw map resolves
class_profiles(people, raw) ==
    {raw[people[i]] : i \in {j \in 1..Len(people) : people[j] \in DOMAIN raw}}

\* the class loop of new: get_class_id allocates last + 1 for a name the class
\* mapping lacks and does not record it
RECURSIVE load_classes(_, _, _, _, _)
load_classes(class_list, raw_class, raw, last, loaded) ==
    IF class_list = <<>>
    THEN [last |-> last, classes |-> loaded]
    ELSE LET class == Head(class_list)
             known == class.name \in DOMAIN raw_class
             id == IF known THEN raw_class[class.name] ELSE last + 1
         IN  load_classes(Tail(class_list), raw_class, raw,
                          IF known THEN last ELSE last + 1,
                          (id :> [name |-> class.name,
                                  profiles |-> class_profiles(class.people, raw)])
                              @@ loaded)

\* new with one counter for both kinds: the class loop goes on from the last
\* profil id
new_one_counter(repartition, id_map, raw_profil, raw_class) ==
    LET p == load_profils(repartition.profiles, raw_profil,
                          last_id_used(id_map.profil_mapping), EmptyMap)
        c == load_classes(repartition.classes, raw_class, p.raw,
                          Max(p.last, last_id_used(id_map.class_mapping)), EmptyMap)
    IN  [id_to_profil |-> p.id_to_profil,
         free_profil_id_beginning |-> p.last,
         name_to_id |->
            [name \in {p.id_to_profil[id].identity.name : id \in DOMAIN p.id_to_profil} |->
                CHOOSE id \in DOMAIN p.id_to_profil :
                    p.id_to_profil[id].identity.name = name],
         classes |-> c.classes,
         free_class_id_beginning |-> c.last]

\* DataServer::new, with the two raw maps from_iter made of the ID map
new(repartition, id_map, raw_profil, raw_class) ==
    LET p == load_profils(repartition.profiles, raw_profil,
                          last_id_used(id_map.profil_mapping), EmptyMap)
        c == load_classes(repartition.classes, raw_class, p.raw,
                          last_id_used(id_map.class_mapping), EmptyMap)
    IN  [id_to_profil |-> p.id_to_profil,
         free_profil_id_beginning |-> p.last,
         name_to_id |->
            [name \in {p.id_to_profil[id].identity.name : id \in DOMAIN p.id_to_profil} |->
                CHOOSE id \in DOMAIN p.id_to_profil :
                    p.id_to_profil[id].identity.name = name],
         classes |-> c.classes,
         free_class_id_beginning |-> c.last]

(***************************************************************************)
(* The serving store: three profils A, B, C, with A and B in one class     *)
(***************************************************************************)

\* the ProfilID of A, B and C in the ID map, and an id of no profil
A == ProfilID(1)
B == ProfilID(2)
C == ProfilID(3)
Stale == ProfilID(4)

\* the ids the operations are called with
Actors == {A, B, C, Stale}
Targets == {A, B, Stale}

\* the operations executed on one store
MaxCalls == 3

Zed == <<"Zed">>

\* the texts the operations are called with
VoteTexts == {Ace, <<" ", "Champ", " ">>, <<" ">>}
StoredTexts == {Ace, Champ}

Permissions(vote_scope, delete_scope, protect_scope) ==
    [vote |-> vote_scope, delete |-> delete_scope,
     protect_nickname |-> protect_scope, allowed_to_use_cmd |-> FALSE]

RosterProfil(name, permissions) ==
    [identity |-> [name |-> name, password |-> "pw"], permissions |-> permissions]

\* the permissions of A, B and C in the rosters the serving store is built from
PermissionTables ==
    { <<Permissions("AnyBody", "SameClass", "YourSelf"),
        Permissions("SameClass", "YourSelf", "AnyBody"),
        Permissions("AnyBody", "SameClass", "Forbidden")>>,
      <<Permissions("YourSelf", "AnyBody", "SameClass"),
        Permissions("Forbidden", "Forbidden", "Forbidden"),
        Permissions("AnyBody", "YourSelf", "AnyBody")>> }

ServingRoster(table) ==
    [profiles |-> <<RosterProfil("A", table[1]), RosterProfil("B", table[2]),
                    RosterProfil("C", table[3])>>,
     classes |-> << [name |-> "X", people |-> <<"A", "B">>] >>]

ServingIdMap ==
    [profil_mapping |-> (A :> "A") @@ (B :> "B") @@ (C :> "C"),
     class_mapping |-> (ClassID(1) :> "X")]

NickNameProposition(author, proposition, votes, protected) ==
    [author |-> author, proposition |-> proposition, votes |-> votes,
     protected |-> protected]

\* the nicknames documents found at start: none, and one saved by an earlier
\* run, which still holds a list for a profil the roster has lost since
NicknameDocuments ==
    { EmptyMap,
      (B :> << NickNameProposition(A, Ace, <<A, C>>, TRUE),
               NickNameProposition(C, Zed, <<>>, FALSE) >>)
        @@ (Stale :> << NickNameProposition(A, Champ, <<A>>, FALSE) >>) }

NoCall == [op |-> "none", actor |-> 0, target |-> 0, text |-> <<>>, state |-> FALSE]

\* nothing recorded yet: no id given to a name, no start
NoHistory == [assigned |-> EmptyMap, booted |-> None, snapshot |-> EmptyMap,
              roster |-> None]

\* the store lock free and not poisoned, no thread started
NoSync == [lock |-> None, poisoned |-> FALSE, at |-> EmptyMap, job |-> EmptyMap]

Built(data_server) ==
    /\ id_to_profil = data_server.id_to_profil
    /\ name_to_id = data_server.name_to_id
    /\ classes = data_server.classes
    /\ free_profil_id_beginning = data_server.free_profil_id_beginning
    /\ free_class_id_beginning = data_server.free_class_id_beginning

\* AppState::new: the store as DataServer::new builds it from the roster and
\* the ID map, then load_proposition when there is a nicknames document
Init ==
    /\ \E table \in PermissionTables, nicknames \in NicknameDocuments :
            files = [classes |-> ServingRoster(table), id_map |-> ServingIdMap,
                     nicknames |-> nicknames]
    /\ \E raw_profil \in raw_name_to_id_maps(files.id_map.profil_mapping),
          raw_class \in raw_name_to_id_maps(files.id_map.class_mapping) :
            Built(new(files.classes, files.id_map, raw_profil, raw_class))
    /\ nick_name_proposition = files.nicknames
    /\ pc = "serving"
    /\ call = NoCall
    /\ before = EmptyMap
    /\ calls = 0
    /\ ret = None
    /\ dirty = Clean
    /\ history = NoHistory
    /\ sync = NoSync

Vote(voter, target, text) ==
    /\ pc = "serving"
    /\ calls < MaxCalls
    /\ nick_name_proposition' = vote(voter, target, text)
    /\ dirty' = vote_flags(voter, target, text)
    /\ call' = [op |-> "vote", actor |-> voter, target |-> target,
                text |-> text, state |-> FALSE]
    /\ before' = nick_name_proposition
    /\ calls' = calls + 1
    /\ UNCHANGED sync
    /\ UNCHANGED <<store, pc, files, ret, history>>

Delete(deleter, target, nickname) ==
    /\ pc = "serving"
    /\ calls < MaxCalls
    /\ nick_name_proposition' = delete(deleter, target, nickname)
    /\ dirty' = delete_flags(deleter, target, nickname)
    /\ call' = [op |-> "delete", actor |-> deleter, target |-> target,
                text |-> nickname, state |-> FALSE]
    /\ before' = nick_name_proposition
    /\ calls' = calls + 1
    /\ UNCHANGED sync
    /\ UNCHANGED <<store, pc, files, ret, history>>

UpdateNicknameProtection(editor, target, nickname, protection_statut) ==
    /\ pc = "serving"
    /\ calls < MaxCalls
    /\ nick_name_proposition' =
            update_nickname_protection(editor, target, nickname, protection_statut)
    /\ dirty' =
            update_nickname_protection_flags(editor, target, nickname, protection_statut)
    /\ call' = [op |-> "update_nickname_protection", actor |-> editor,
                target |-> target, text |-> nickname, state |-> protection_statut]
    /\ before' = nick_name_proposition
    /\ calls' = calls + 1
    /\ UNCHANGED sync
    /\ UNCHANGED <<store, pc, files, ret, history>>

Next ==
    \/ \E voter \in Actors, target \in Targets, text \in VoteTexts :
            Vote(voter, target, text)
    \/ \E deleter \in Actors, target \in Targets, nickname \in StoredTexts :
            Delete(deleter, target, nickname)
    \/ \E editor \in Actors, target \in Targets, nickname \in StoredTexts,
          protection_statut \in BOOLEAN :
            UpdateNicknameProtection(editor, target, nickname, protection_statut)

Spec == Init /\ [][Next]_vars

(***************************************************************************)
(* Vocabulary of the properties, stated apart from the operations above    *)
(***************************************************************************)

Voters(nickname) == {nickname.votes[k] : k \in 1..Len(nickname.votes)}

Count(nickname) == Len(nickname.votes)

Texts(nicknames) == {nicknames[i].proposition : i \in 1..Len(nicknames)}

\* the places of one list where voter v stands
VoteSlots(nicknames, v) ==
    {slot \in UNION {{i} \X (1..Len(nicknames[i].votes)) : i \in 1..Len(nicknames)} :
        nicknames[slot[1]].votes[slot[2]] = v}

\* the indexes of one list holding a text
IndexesOf(nicknames, text) ==
    {i \in 1..Len(nicknames) : nicknames[i].proposition = text}

\* the scope lets actor act on target
ScopeReaches(scope, actor, target) ==
    \/ scope = "AnyBody"
    \/ scope = "YourSelf" /\ actor = target
    \/ scope = "SameClass" /\ \E c \in DOMAIN classes :
                                {actor, target} \subseteq classes[c].profiles

HasPermissions(actor) == actor \in DOMAIN id_to_profil

MayVote(actor, target) ==
    HasPermissions(actor)
        /\ ScopeReaches(id_to_profil[actor].permissions.vote, actor, target)

MayDelete(actor, target) ==
    HasPermissions(actor)
        /\ ScopeReaches(id_to_profil[actor].permissions.delete, actor, target)

MayProtect(actor, target) ==
    HasPermissions(actor)
        /\ ScopeReaches(id_to_profil[actor].permissions.protect_nickname, actor, target)

\* the last operation was a vote that passed the permission and text checks
PermittedVote ==
    /\ call.op = "vote"
    /\ MayVote(call.actor, call.target)
    /\ Trim(call.text) # <<>>

\* the list of the last operation's target, before and after it
ListBefore == before[call.target]
ListAfter == nick_name_proposition[call.target]

(***************************************************************************)
(* C1..C8: the nickname ledger                                             *)
(***************************************************************************)

\* C1: in every reachable state, every voter stands in the vote list of at
\* most one proposition of a target, and at most once in that list.
C1_OneVotePerVoterAndTarget ==
    \A t \in DOMAIN nick_name_proposition : \A v \in Actors :
        Cardinality(VoteSlots(nick_name_proposition[t], v)) <= 1

\* C1 witness: a vote has just moved its voter from one proposition of the
\* target to another one.
C1_Witness_VoteMoved ==
    /\ PermittedVote
    /\ call.target \in DOMAIN before
    /\ \E i \in 1..Len(ListBefore), j \in 1..Len(ListAfter) :
        /\ call.actor \in Voters(ListBefore[i])
        /\ call.actor \in Voters(ListAfter[j])
        /\ ListBefore[i].proposition # ListAfter[j].proposition

\* C2: a permitted vote whose trimmed text is the text of a proposition the
\* target's list already holds adds no proposition to the list; the count of
\* that proposition grows by exactly 1 when the voter was not among its voters
\* and is unchanged when the voter was.
C2_VoteForExistingText ==
    (/\ PermittedVote
     /\ call.target \in DOMAIN before
     /\ Trim(call.text) \in Texts(ListBefore))
    => /\ Len(ListAfter) = Len(ListBefore)
       /\ \A i \in 1..Len(ListBefore) :
            /\ ListAfter[i].proposition = ListBefore[i].proposition
            /\ ListBefore[i].proposition = Trim(call.text) =>
                 Count(ListAfter[i]) =
                    IF call.actor \in Voters(ListBefore[i])
                    THEN Count(ListBefore[i])
                    ELSE Count(ListBefore[i]) + 1

\* C2 witness: a permitted vote for a text the list held, by someone who was
\* not among its voters: the list kept its length and the count grew.
C2_Witness_CountGrew ==
    /\ PermittedVote
    /\ call.target \in DOMAIN before
    /\ \E i \in 1..Len(ListBefore) :
        /\ ListBefore[i].proposition = Trim(call.text)
        /\ call.actor \notin Voters(ListBefore[i])
        /\ Count(ListBefore[i]) >= 1
        /\ Count(ListAfter[i]) = Count(ListBefore[i]) + 1
        /\ Len(ListAfter) = Len(ListBefore)

\* the scenario of C3: A voted "Ace" for B, then C voted "Ace" for B
AfterTwoAceVotes == (B :> << NickNameProposition(A, Ace, <<A, C>>, FALSE) >>)

\* C3: when the voter stands on proposition P1 of the target and casts a
\* permitted vote for another text P2, P1 stays in the list with its count
\* lowered by exactly 1, P2 is in the list afterwards with the voter among its
\* voters, and the count of every other proposition of the target is
\* unchanged.  In particular, after A and C voted "Ace" for B, A's vote for
\* "Champ" leaves "Ace" with count 1 and "Champ" with count 1.
C3_VoteMovesToOtherText ==
    /\ (/\ PermittedVote
        /\ call.target \in DOMAIN before
        /\ \E i \in 1..Len(ListBefore) :
                /\ call.actor \in Voters(ListBefore[i])
                /\ ListBefore[i].proposition # Trim(call.text))
       => /\ \A i \in 1..Len(ListBefore) :
                /\ ListAfter[i].proposition = ListBefore[i].proposition
                /\ Count(ListAfter[i]) =
                     IF ListBefore[i].proposition = Trim(call.text)
                     THEN Count(ListBefore[i]) + 1
                     ELSE IF call.actor \in Voters(ListBefore[i])
                     THEN Count(ListBefore[i]) - 1
                     ELSE Count(ListBefore[i])
          /\ \E j \in 1..Len(ListAfter) :
                /\ ListAfter[j].proposition = Trim(call.text)
                /\ call.actor \in Voters(ListAfter[j])
    /\ (/\ PermittedVote
        /\ call.actor = A /\ call.target = B /\ Trim(call.text) = Champ
        /\ before = AfterTwoAceVotes)
       => nick_name_proposition =
            (B :> << NickNameProposition(A, Ace, <<C>>, FALSE),
                     NickNameProposition(A, Champ, <<A>>, FALSE) >>)

\* C3 witness: the scenario has run from the empty container: A and C voted
\* "Ace" for B, A has just voted "Champ", and both counts are 1.
C3_Witness_AceThenChamp ==
    /\ PermittedVote
    /\ files.nicknames = EmptyMap
    /\ calls = 3
    /\ call.actor = A /\ call.target = B /\ Trim(call.text) = Champ
    /\ before = AfterTwoAceVotes
    /\ Len(ListAfter) = 2
    /\ Count(ListAfter[1]) = 1 /\ Count(ListAfter[2]) = 1

\* the removal test of delete, for proposition n of the target
RemovalPermitted(deleter, target, n) ==
    /\ MayDelete(deleter, target) \/ n.author = deleter
    /\ ~n.protected \/ MayProtect(deleter, target)

\* list `after` is list `prior` less its proposition `text`
Removed(prior, after, text) ==
    /\ Len(after) = Len(prior) - 1
    /\ text \notin Texts(after)
    /\ \A i \in 1..Len(prior) :
            prior[i].proposition # text =>
                \E j \in 1..Len(after) : after[j] = prior[i]

\* C4: a delete by a deleter with a Permissions record, for a text the target's
\* list holds, removes that proposition if and only if (the delete scope
\* reaches the target or the deleter is its author) and (it is not protected
\* or the protect scope reaches the target); in every other case the lists are
\* left as they were.
C4_DeleteRemovesIffPermitted ==
    call.op = "delete" =>
        IF /\ HasPermissions(call.actor)
           /\ call.target \in DOMAIN before
           /\ call.text \in Texts(ListBefore)
        THEN LET i == CHOOSE k \in IndexesOf(ListBefore, call.text) :
                        \A m \in IndexesOf(ListBefore, call.text) : k <= m
             IN  IF RemovalPermitted(call.actor, call.target, ListBefore[i])
                 THEN /\ Removed(ListBefore, ListAfter, call.text)
                      /\ \A t \in DOMAIN before \ {call.target} :
                            nick_name_proposition[t] = before[t]
                      /\ DOMAIN nick_name_proposition = DOMAIN before
                 ELSE nick_name_proposition = before
        ELSE nick_name_proposition = before

\* C4 witness: a deleter whose delete scope is SameClass, sharing no class with
\* the target and not the author of the unprotected proposition, has called
\* delete, and the proposition is still there.
C4_Witness_SameClassOutsider ==
    /\ call.op = "delete"
    /\ HasPermissions(call.actor)
    /\ id_to_profil[call.actor].permissions.delete = "SameClass"
    /\ ~MayDelete(call.actor, call.target)
    /\ call.target \in DOMAIN before
    /\ \E i \in 1..Len(ListBefore) :
        /\ ListBefore[i].proposition = call.text
        /\ ~ListBefore[i].protected
        /\ ListBefore[i].author # call.actor
        /\ ListAfter[i] = ListBefore[i]

\* C5: a protected proposition stays in its target's list, still protected,
\* through every vote, delete and protection update made by an actor whose
\* protect scope does not reach that target; only an actor whose protect scope
\* reaches the target removes it or clears its flag.
C5_ProtectedStaysProtected ==
    call.op \in {"vote", "delete", "update_nickname_protection"} =>
        \A t \in DOMAIN before : \A i \in 1..Len(before[t]) :
            (before[t][i].protected /\ ~MayProtect(call.actor, t)) =>
                /\ t \in DOMAIN nick_name_proposition
                /\ \E j \in 1..Len(nick_name_proposition[t]) :
                    /\ nick_name_proposition[t][j].proposition = before[t][i].proposition
                    /\ nick_name_proposition[t][j].author = before[t][i].author
                    /\ nick_name_proposition[t][j].protected

\* C5 witness: an actor holding the delete right over the target, but whose
\* protect scope does not reach it, has called delete on a protected
\* proposition, which is still in the list and still protected.
C5_Witness_DeleteRefusedByProtection ==
    /\ call.op = "delete"
    /\ call.target \in DOMAIN before
    /\ ~MayProtect(call.actor, call.target)
    /\ \E i \in 1..Len(ListBefore) :
        /\ ListBefore[i].proposition = call.text
        /\ ListBefore[i].protected
        /\ MayDelete(call.actor, call.target) \/ ListBefore[i].author = call.actor
        /\ ListAfter[i] = ListBefore[i]

\* C6: a vote leaves every proposition list (texts, authors, voters, flags) as
\* it was when the voter has no Permissions record, when the voter's vote scope
\* does not reach the target, or when the text is empty once trimmed; vote
\* returns nothing in every case.
C6_RefusedVoteChangesNothing ==
    (/\ call.op = "vote"
     /\ \/ ~HasPermissions(call.actor)
        \/ ~MayVote(call.actor, call.target)
        \/ Trim(call.text) = <<>>)
    => /\ nick_name_proposition = before
       /\ ret = None

\* C6 witness: a voter whose vote scope reaches the target has voted a text of
\* blanks on a target that holds propositions, and nothing changed.
C6_Witness_BlankText ==
    /\ call.op = "vote"
    /\ MayVote(call.actor, call.target)
    /\ call.text # <<>> /\ Trim(call.text) = <<>>
    /\ call.target \in DOMAIN before
    /\ ListBefore # <<>>
    /\ nick_name_proposition = before

FlagSet(prior, after, text, state) ==
    /\ Len(after) = Len(prior)
    /\ \A i \in 1..Len(prior) :
        /\ after[i].proposition = prior[i].proposition
        /\ after[i].author = prior[i].author
        /\ after[i].votes = prior[i].votes
        /\ after[i].protected =
              IF prior[i].proposition = text THEN state ELSE prior[i].protected

\* C8: update_nickname_protection sets the flag of the proposition with that
\* text under the target to the new state if and only if the editor's protect
\* scope reaches the target and the proposition exists; otherwise every flag is
\* unchanged.  It never changes a text, an author or a voter list.
C8_ProtectionUpdate ==
    call.op = "update_nickname_protection" =>
        /\ DOMAIN nick_name_proposition = DOMAIN before
        /\ \A t \in DOMAIN before :
            IF /\ t = call.target
               /\ MayProtect(call.actor, call.target)
               /\ call.text \in Texts(before[t])
            THEN FlagSet(before[t], nick_name_proposition[t], call.text, call.state)
            ELSE nick_name_proposition[t] = before[t]

\* C8 witness: an editor whose protect scope reaches the target has protected
\* a proposition that was not protected.
C8_Witness_Protected ==
    /\ call.op = "update_nickname_protection"
    /\ call.state = TRUE
    /\ MayProtect(call.actor, call.target)
    /\ call.target \in DOMAIN before
    /\ \E i \in 1..Len(ListBefore) :
        /\ ListBefore[i].proposition = call.text
        /\ ~ListBefore[i].protected
        /\ ListAfter[i].protected

(***************************************************************************)
(* The permission test on its own: any class container, any scope, any     *)
(* editor and target                                                       *)
(***************************************************************************)

\* the class containers the test is run on: none, or classes 1 and 2 with any
\* members among A, B and C
ClassContainers ==
    {EmptyMap} \cup
    { (ClassID(1) :> [name |-> "X", profiles |-> x])
        @@ (ClassID(2) :> [name |-> "Y", profiles |-> y]) :
            x \in SUBSET {A, B, C}, y \in SUBSET {A, B, C} }

NoFiles == [classes |-> [profiles |-> <<>>, classes |-> <<>>],
            id_map |-> [profil_mapping |-> EmptyMap, class_mapping |-> EmptyMap],
            nicknames |-> EmptyMap]

InitPermission ==
    /\ classes \in ClassContainers
    /\ id_to_profil = EmptyMap
    /\ name_to_id = EmptyMap
    /\ free_profil_id_beginning = 0
    /\ free_class_id_beginning = 0
    /\ nick_name_proposition = EmptyMap
    /\ call = NoCall
    /\ before = EmptyMap
    /\ calls = 0
    /\ pc = "serving"
    /\ files = NoFiles
    /\ ret = None
    /\ dirty = Clean
    /\ history = NoHistory
    /\ sync = NoSync

IsActionAllowedBetween(interaction_permission, editor, target) ==
    /\ ret' = Some(is_action_allowed_between(interaction_permission, editor, target))
    /\ call' = [op |-> "is_action_allowed_between", actor |-> editor,
                target |-> target, text |-> <<>>, state |-> FALSE,
                scope |-> interaction_permission]
    /\ UNCHANGED sync
    /\ UNCHANGED <<store, nick_name_proposition, before, calls, pc, files, dirty,
                   history>>

NextPermission ==
    \E interaction_permission \in InteractionPermission, editor \in Actors,
       target \in Actors :
        IsActionAllowedBetween(interaction_permission, editor, target)

SpecPermission == InitPermission /\ [][NextPermission]_vars

\* the classes a profil is a member of
ClassesOf(profil) == {c \in DOMAIN classes : profil \in classes[c].profiles}

\* C9: is_action_allowed_between returns false for Forbidden, editor = target
\* for YourSelf, true for AnyBody, and for SameClass true exactly when some
\* class holds both editor and target; it always returns a boolean, and under
\* SameClass an id that is unknown or in no class gives false, also when
\* editor = target.
C9_ScopeEvaluation ==
    call.op = "is_action_allowed_between" =>
        /\ ret \in {Some(TRUE), Some(FALSE)}
        /\ call.scope = "Forbidden" => ret = Some(FALSE)
        /\ call.scope = "YourSelf" => ret = Some(call.actor = call.target)
        /\ call.scope = "AnyBody" => ret = Some(TRUE)
        /\ call.scope = "SameClass" =>
            /\ ret = Some(ClassesOf(call.actor) \cap ClassesOf(call.target) # {})
            /\ (ClassesOf(call.actor) = {} \/ ClassesOf(call.target) = {})
                    => ret = Some(FALSE)

\* C9 witness: SameClass was evaluated between a profil of no class and itself,
\* while other profils are in classes, and the answer was false.
C9_Witness_SameClassAlone ==
    /\ call.op = "is_action_allowed_between"
    /\ call.scope = "SameClass"
    /\ call.actor = call.target
    /\ ClassesOf(call.actor) = {}
    /\ \E c \in DOMAIN classes : classes[c].profiles # {}
    /\ ret = Some(FALSE)

(***************************************************************************)
(* DataServer::new on its own: any roster and ID map within the bounds     *)
(***************************************************************************)

\* the longest profil list and class list of a roster
MaxRosterProfils == 2
MaxRosterClasses == 2

SeqsUpTo(S, n) == UNION {[1..k -> S] : k \in 0..n}

DefaultPermissions == Permissions("SameClass", "Forbidden", "Forbidden")

RosterProfils == {RosterProfil(name, DefaultPermissions) : name \in {"A", "B", "C"}}

\* "D" is a name of no roster and no ID map
RosterClasses ==
    {[name |-> name, people |-> people] :
        name \in {"X", "Y"}, people \in {<<"A", "B">>, <<"C", "D">>}}

Rosters ==
    {[profiles |-> profiles, classes |-> class_list] :
        profiles \in SeqsUpTo(RosterProfils, MaxRosterProfils),
        class_list \in SeqsUpTo(RosterClasses, MaxRosterClasses)}

\* the mappings that give some ids of `ids` a name of `names`; two ids may
\* record the same name
Mappings(ids, names) == UNION {[d -> names] : d \in SUBSET ids}

IdMaps ==
    {[profil_mapping |-> profil_mapping, class_mapping |-> class_mapping] :
        profil_mapping \in Mappings({ProfilID(2), ProfilID(5)}, {"A", "B", "C"}),
        class_mapping \in Mappings({ClassID(1), ClassID(3)}, {"X", "Y"})}

InitNew ==
    /\ \E repartition \in Rosters, id_map \in IdMaps :
            files = [classes |-> repartition, id_map |-> id_map,
                     nicknames |-> EmptyMap]
    /\ id_to_profil = EmptyMap
    /\ name_to_id = EmptyMap
    /\ classes = EmptyMap
    /\ free_profil_id_beginning = 0
    /\ free_class_id_beginning = 0
    /\ nick_name_proposition = EmptyMap
    /\ call = NoCall
    /\ before = EmptyMap
    /\ calls = 0
    /\ pc = "boot"
    /\ ret = None
    /\ dirty = Clean
    /\ history = NoHistory
    /\ sync = NoSync

\* DataServer::new(people_repartition, id_map) in AppState::new
New ==
    /\ pc = "boot"
    /\ \E raw_profil \in raw_name_to_id_maps(files.id_map.profil_mapping),
          raw_class \in raw_name_to_id_maps(files.id_map.class_mapping) :
        LET data_server == new(files.classes, files.id_map, raw_profil, raw_class)
        IN  /\ id_to_profil' = data_server.id_to_profil
            /\ name_to_id' = data_server.name_to_id
            /\ classes' = data_server.classes
            /\ free_profil_id_beginning' = data_server.free_profil_id_beginning
            /\ free_class_id_beginning' = data_server.free_class_id_beginning
    /\ pc' = "serving"
    /\ call' = [op |-> "new", actor |-> 0, target |-> 0, text |-> <<>>,
                state |-> FALSE]
    /\ UNCHANGED sync
    /\ UNCHANGED <<nick_name_proposition, before, calls, files, ret, dirty, history>>

NextNew == New

SpecNew == InitNew /\ [][NextNew]_vars

Range(f) == {f[x] : x \in DOMAIN f}

RosterProfilNames ==
    {files.classes.profiles[i].identity.name : i \in 1..Len(files.classes.profiles)}

RosterClassNames ==
    {files.classes.classes[i].name : i \in 1..Len(files.classes.classes)}

\* the ids the mapping records for a name
RecordedIds(mapping, name) == {id \in DOMAIN mapping : mapping[id] = name}

\* C10: after DataServer::new, every profil name and every class name that is
\* both in the roster and in the ID map is instantiated under exactly the id
\* the ID map records for it (under exactly one of them when the map records
\* the name under several ids).
C10_MappedNamesKeepTheirId ==
    call.op = "new" =>
        /\ \A name \in RosterProfilNames \cap Range(files.id_map.profil_mapping) :
            \E id \in RecordedIds(files.id_map.profil_mapping, name) :
                /\ id \in DOMAIN id_to_profil
                /\ id_to_profil[id].identity.name = name
                /\ \A other \in DOMAIN id_to_profil :
                        id_to_profil[other].identity.name = name => other = id
                /\ name \in DOMAIN name_to_id /\ name_to_id[name] = id
        /\ \A name \in RosterClassNames \cap Range(files.id_map.class_mapping) :
            \E id \in RecordedIds(files.id_map.class_mapping, name) :
                /\ id \in DOMAIN classes
                /\ classes[id].name = name
                /\ \A other \in DOMAIN classes :
                        classes[other].name = name => other = id

\* C10 witness: the store was built from a roster that names B, which the ID
\* map records as 5, next to a profil the map lacks, and a class the map
\* records as 3: B is profil 5 and the class is class 3.
C10_Witness_MappedAndFresh ==
    /\ call.op = "new"
    /\ "B" \in RosterProfilNames \cap Range(files.id_map.profil_mapping)
    /\ RecordedIds(files.id_map.profil_mapping, "B") = {ProfilID(5)}
    /\ RosterProfilNames \ Range(files.id_map.profil_mapping) # {}
    /\ id_to_profil[ProfilID(5)].identity.name = "B"
    /\ \E name \in RosterClassNames \cap Range(files.id_map.class_mapping) :
        /\ RecordedIds(files.id_map.class_mapping, name) = {ClassID(3)}
        /\ classes[ClassID(3)].name = name

\* the ids a container holds that the mapping of the ID map does not record
FreshIds(container, mapping) == DOMAIN container \ DOMAIN mapping

\* the names of the roster the mapping of the ID map does not record
FreshNames(names, mapping) == names \ Range(mapping)

AllGreater(ids, others) == \A id \in ids : \A other \in others : id > other

\* the profil ids in use: the profils and the members of the classes
ProfilIdsInUse ==
    DOMAIN id_to_profil \cup UNION {classes[c].profiles : c \in DOMAIN classes}

C11_ProfilAllocation ==
    LET fresh == FreshIds(id_to_profil, files.id_map.profil_mapping)
    IN  /\ Cardinality(fresh) =
                Cardinality(FreshNames(RosterProfilNames, files.id_map.profil_mapping))
        /\ AllGreater(fresh, DOMAIN files.id_map.profil_mapping)
        /\ \A id \in ProfilIdsInUse : free_profil_id_beginning >= id

C11_ClassAllocation ==
    LET fresh == FreshIds(classes, files.id_map.class_mapping)
    IN  /\ Cardinality(fresh) =
                Cardinality(FreshNames(RosterClassNames, files.id_map.class_mapping))
        /\ AllGreater(fresh, DOMAIN files.id_map.class_mapping)
        /\ \A id \in DOMAIN classes : free_class_id_beginning >= id

\* C11: after DataServer::new from a roster with N names the ID map lacks, the
\* store holds exactly N ids the ID map lacks, for profils and for classes
\* alike; they are all greater than every id of that kind in the ID map (so
\* they differ from all of them), and the free-id counter of each kind is at
\* least every id of that kind in use.
C11_FreshIdsPerUnmappedName ==
    call.op = "new" => C11_ProfilAllocation /\ C11_ClassAllocation

\* DataServer::get_profil_id: name_to_id.get(name).cloned()
get_profil_id(name) ==
    IF name \in DOMAIN name_to_id THEN Some(name_to_id[name]) ELSE None

\* DataServer::log: the name resolves to a profil whose password is the given one
log(identity) ==
    /\ identity.name \in DOMAIN name_to_id
    /\ name_to_id[identity.name] \in DOMAIN id_to_profil
    /\ id_to_profil[name_to_id[identity.name]].identity.password = identity.password

\* the names the ID map records that the profil list of the roster lacks
StaleNames == Range(files.id_map.profil_mapping) \ RosterProfilNames

Passwords == {"pw", ""}

C13_NotLive(name) ==
    /\ \A id \in DOMAIN id_to_profil : id_to_profil[id].identity.name # name
    /\ get_profil_id(name) = None
    /\ \A password \in Passwords : ~log([name |-> name, password |-> password])

C13_InNoClass(name) ==
    \A id \in RecordedIds(files.id_map.profil_mapping, name) :
        \A c \in DOMAIN classes : id \notin classes[c].profiles

\* C13: after DataServer::new, a name the ID map records and the profil list
\* of the roster lacks has no profil in id_to_profil, get_profil_id returns
\* None for it, log refuses it with any password, and no class has an id the
\* ID map records for it among its members.
C13_StaleNameNotInstantiated ==
    call.op = "new" =>
        \A name \in StaleNames : C13_NotLive(name) /\ C13_InNoClass(name)

\* the largest id of a set, 0 for none
Highest(ids) == IF ids = {} THEN 0 ELSE CHOOSE x \in ids : \A y \in ids : x >= y

RosterProfilName(i) == files.classes.profiles[i].identity.name
RosterClassName(i) == files.classes.classes[i].name

\* the names the profil mapping lacks among the first i profils of the roster
UnmappedProfilNames(i) ==
    {RosterProfilName(j) : j \in 1..i} \ Range(files.id_map.profil_mapping)

\* the classes whose name the class mapping lacks among the first i classes
UnmappedClasses(i) ==
    {j \in 1..i : RosterClassName(j) \notin Range(files.id_map.class_mapping)}

FirstProfilNamed(name) ==
    CHOOSE i \in 1..Len(files.classes.profiles) :
        /\ RosterProfilName(i) = name
        /\ \A j \in 1..(i - 1) : RosterProfilName(j) # name

\* the id of the i-th profil of the roster, from the profils of the roster and
\* the profil mapping alone
C15_ProfilIds(i) ==
    LET name == RosterProfilName(i)
    IN  IF name \in Range(files.id_map.profil_mapping)
        THEN RecordedIds(files.id_map.profil_mapping, name)
        ELSE {Highest(DOMAIN files.id_map.profil_mapping)
                + Cardinality(UnmappedProfilNames(FirstProfilNamed(name)))}

\* the id of the i-th class of the roster, from the classes of the roster and
\* the class mapping alone
C15_ClassIds(i) ==
    LET name == RosterClassName(i)
    IN  IF name \in Range(files.id_map.class_mapping)
        THEN RecordedIds(files.id_map.class_mapping, name)
        ELSE {Highest(DOMAIN files.id_map.class_mapping)
                + Cardinality(UnmappedClasses(i))}

\* C15: after DataServer::new the id of every profil is given by the profil
\* list of the roster and the profil mapping alone, the id of every class by
\* the class list of the roster and the class mapping alone, and each free-id
\* counter stands at the largest id of its own mapping plus the number of ids
\* allocated for its own kind: allocating for one kind does not advance the
\* counter of the other.
C15_KindsAllocateIndependently ==
    call.op = "new" =>
        /\ \A i \in 1..Len(files.classes.profiles) :
            \E id \in C15_ProfilIds(i) :
                /\ id \in DOMAIN id_to_profil
                /\ id_to_profil[id].identity.name = RosterProfilName(i)
        /\ \A id \in DOMAIN id_to_profil :
            \E i \in 1..Len(files.classes.profiles) : id \in C15_ProfilIds(i)
        /\ free_profil_id_beginning =
                Highest(DOMAIN files.id_map.profil_mapping)
                    + Cardinality(UnmappedProfilNames(Len(files.classes.profiles)))
        /\ \A i \in 1..Len(files.classes.classes) :
            \E id \in C15_ClassIds(i) :
                /\ id \in DOMAIN classes
                /\ classes[id].name = RosterClassName(i)
        /\ \A id \in DOMAIN classes :
            \E i \in 1..Len(files.classes.classes) : id \in C15_ClassIds(i)
        /\ free_class_id_beginning =
                Highest(DOMAIN files.id_map.class_mapping)
                    + Cardinality(UnmappedClasses(Len(files.classes.classes)))

\* C15 witness: the store was built from a roster with two profils and one
\* class the ID map lacks, over a profil mapping that ends at 5 and a class
\* mapping that ends at 1: the profil counter stands at 7, the class counter
\* at 2.
C15_Witness_BothKindsAllocated ==
    /\ call.op = "new"
    /\ Highest(DOMAIN files.id_map.profil_mapping) = ProfilID(5)
    /\ Highest(DOMAIN files.id_map.class_mapping) = ClassID(1)
    /\ Cardinality(FreshIds(id_to_profil, files.id_map.profil_mapping)) = 2
    /\ Cardinality(FreshIds(classes, files.id_map.class_mapping)) = 1
    /\ free_profil_id_beginning = 7
    /\ free_class_id_beginning = 2

(***************************************************************************)
(* AppState::load_data on its own: the two forms of one document, present  *)
(* or not, with or without a modification time                             *)
(***************************************************************************)

SaveFormat == {"Cbor", "Json"}

\* Option::unwrap_or
unwrap_or(option, default) == IF option = None THEN default ELSE unwrap(option)

\* is_more_recent_than with >= for >: a tie goes to the first file
is_more_recent_or_same(f1, f2) ==
    IF f1.modified = None \/ f2.modified = None THEN None
    ELSE Some(unwrap(f1.modified) >= unwrap(f2.modified))

\* AppState::is_more_recent_than: None when a modification time cannot be read
is_more_recent_than(f1, f2) ==
    IF f1.modified = None \/ f2.modified = None THEN None
    ELSE Some(unwrap(f1.modified) > unwrap(f2.modified))

\* AppState::load_data over the two files File::open found: the form it logs
\* as loaded and what the reader returns, None for a content that does not parse
load_data(format, cbor, json) ==
    IF cbor # None /\ json = None
    THEN [loading |-> "cbor", data |-> unwrap(cbor).content]
    ELSE IF cbor = None /\ json # None
    THEN [loading |-> "json", data |-> unwrap(json).content]
    ELSE IF cbor # None /\ json # None
    THEN IF unwrap_or(is_more_recent_than(unwrap(cbor), unwrap(json)), format = "Cbor")
         THEN [loading |-> "cbor", data |-> unwrap(cbor).content]
         ELSE [loading |-> "json", data |-> unwrap(json).content]
    ELSE [loading |-> "none", data |-> None]

\* the latest modification time of a file
MaxTime == 2

\* a file of one form: its modification time, if the platform gives one, and
\* the document it parses to, if it parses
FilesOf(form) ==
    {[modified |-> modified, content |-> content] :
        modified \in {None} \cup {Some(t) : t \in 1..MaxTime},
        content \in {None, Some(form)}}

\* File::open(..).ok() for each form
OpenedFiles(form) == {None} \cup {Some(f) : f \in FilesOf(form)}

InitLoad ==
    /\ files \in [cbor : OpenedFiles("cbor document"), json : OpenedFiles("json document")]
    /\ id_to_profil = EmptyMap
    /\ name_to_id = EmptyMap
    /\ classes = EmptyMap
    /\ free_profil_id_beginning = 0
    /\ free_class_id_beginning = 0
    /\ nick_name_proposition = EmptyMap
    /\ call = NoCall
    /\ before = EmptyMap
    /\ calls = 0
    /\ pc = "boot"
    /\ ret = None
    /\ dirty = Clean
    /\ history = NoHistory
    /\ sync = NoSync

LoadData(format) ==
    /\ ret' = Some(load_data(format, files.cbor, files.json))
    /\ call' = [op |-> "load_data", actor |-> 0, target |-> 0, text |-> <<>>,
                state |-> FALSE, format |-> format]
    /\ UNCHANGED sync
    /\ UNCHANGED <<store, nick_name_proposition, before, calls, pc, files, dirty,
                   history>>

NextLoad == \E format \in SaveFormat : LoadData(format)

SpecLoad == InitLoad /\ [][NextLoad]_vars

Loaded == unwrap(ret).loading

ModifiedAt(file) == unwrap(unwrap(file).modified)

BothTimed ==
    /\ files.cbor # None /\ unwrap(files.cbor).modified # None
    /\ files.json # None /\ unwrap(files.json).modified # None

\* C20: load_data reads the only form present; of two forms with modification
\* times, the strictly newer one, and the JSON form when the times are equal;
\* of two forms of which one has no readable modification time, the form of
\* the configured save format; nothing when neither is present. What it
\* returns is the parse of that form.
C20_LoadDataChoice ==
    call.op = "load_data" =>
        /\ (files.cbor # None /\ files.json = None) => Loaded = "cbor"
        /\ (files.cbor = None /\ files.json # None) => Loaded = "json"
        /\ (files.cbor = None /\ files.json = None) => Loaded = "none"
        /\ BothTimed =>
            /\ ModifiedAt(files.cbor) > ModifiedAt(files.json) => Loaded = "cbor"
            /\ ModifiedAt(files.cbor) < ModifiedAt(files.json) => Loaded = "json"
            /\ ModifiedAt(files.cbor) = ModifiedAt(files.json) => Loaded = "json"
        /\ (files.cbor # None /\ files.json # None /\ ~BothTimed) =>
            Loaded = IF call.format = "Cbor" THEN "cbor" ELSE "json"
        /\ unwrap(ret).data =
            CASE Loaded = "cbor" -> unwrap(files.cbor).content
              [] Loaded = "json" -> unwrap(files.json).content
              [] Loaded = "none" -> None

\* C20 witness: both forms are present with the same modification time, the
\* configured format is Cbor, and load_data read the JSON form.
C20_Witness_TieReadsJson ==
    /\ call.op = "load_data"
    /\ call.format = "Cbor"
    /\ BothTimed
    /\ ModifiedAt(files.cbor) = ModifiedAt(files.json)
    /\ Loaded = "json"
    /\ unwrap(ret).data = Some("json document")

(***************************************************************************)
(* Persistence: the snapshot builders, AppState::save and AppState::new    *)
(***************************************************************************)

\* DataServer::build_id_map
build_id_map ==
    [profil_mapping |-> [id \in DOMAIN id_to_profil |-> id_to_profil[id].identity.name],
     class_mapping |-> [id \in DOMAIN classes |-> classes[id].name]]

\* the names in the order of String::cmp
Names == <<"A", "B", "C", "D">>

NameRank(name) == CHOOSE i \in 1..Len(Names) : Names[i] = name

\* the sequences that list every element of a set once
Orders(S) ==
    {order \in [1..Cardinality(S) -> S] :
        \A i, j \in 1..Cardinality(S) : order[i] = order[j] => i = j}

\* profiles.sort_by(|a, b| a.identity.name.cmp(&b.identity.name)) over the
\* values of id_to_profil; profils of one name stay in the order of iteration
sorted_profils ==
    {order \in Orders(DOMAIN id_to_profil) :
        \A i, j \in 1..Len(order) :
            i < j => NameRank(id_to_profil[order[i]].identity.name)
                        <= NameRank(id_to_profil[order[j]].identity.name)}

\* the people of a class in the roster document: the names of the members
\* id_to_profil holds. DataServer::new reads them into a HashSet, so they are
\* listed in the order of Names
people_of(class) ==
    LET names == {id_to_profil[id].identity.name :
                    id \in class.profiles \cap DOMAIN id_to_profil}
        listed == {order \in Orders(names) :
                    \A i, j \in 1..Len(order) :
                        i < j => NameRank(order[i]) < NameRank(order[j])}
    IN  CHOOSE order \in listed : TRUE

\* the roster documents DataServer::build_people_repartition can return once
\* the flag is found set: the classes come in the order of iteration of the
\* HashMap, which is not fixed
people_repartitions ==
    {[profiles |-> [i \in 1..Len(profils) |-> id_to_profil[profils[i]]],
      classes |-> [i \in 1..Len(class_ids) |->
                    [name |-> classes[class_ids[i]].name,
                     people |-> people_of(classes[class_ids[i]])]]] :
        profils \in sorted_profils, class_ids \in Orders(DOMAIN classes)}

\* DataServer::build_people_repartition: what it can return, with the flags it
\* leaves; only the flag of id_to_profil is consulted
build_people_repartition(flags) ==
    LET cleared == clear_dirty(flags, "id_to_profil")
    IN  IF ~cleared.was_dirty
        THEN {[ret |-> None, flags |-> cleared.flags]}
        ELSE {[ret |-> Some(repartition), flags |-> cleared.flags] :
                repartition \in people_repartitions}

\* DataServer::try_to_save_profils: the roster document, when there is one to
\* save, with the ID map
try_to_save_profils(flags) ==
    {[ret |-> IF built.ret = None THEN None
              ELSE Some([repartition |-> unwrap(built.ret), id_map |-> build_id_map]),
      flags |-> built.flags] : built \in build_people_repartition(flags)}

\* DataServer::try_to_save_nickname, with the flags it leaves
try_to_save_nickname(flags) ==
    LET cleared == clear_dirty(flags, "nick_name_proposition")
    IN  [ret |-> IF cleared.was_dirty THEN Some(nick_name_proposition) ELSE None,
         flags |-> cleared.flags]

\* what a roster document says of a store, whatever the order of its lists:
\* the profils, and the classes with the names of their live members
roster_content(profils, class_container) ==
    [profiles |-> {profils[id] : id \in DOMAIN profils},
     classes |-> {[name |-> class_container[id].name,
                   people |-> {profils[member].identity.name :
                                member \in class_container[id].profiles
                                            \cap DOMAIN profils}] :
                    id \in DOMAIN class_container}]

\* 1 for an operation that follows another one, 2 when it follows itself
Run(op) == IF call.op = op THEN 2 ELSE 1

\* AppState::save, in either format: the nicknames document is written when
\* try_to_save_nickname returns one, the roster and the ID map when
\* try_to_save_profils returns them
Save ==
    /\ pc = "serving"
    /\ LET nicknames == try_to_save_nickname(dirty)
       IN  \E profils \in try_to_save_profils(nicknames.flags) :
            /\ files' =
                [nicknames |-> IF nicknames.ret = None THEN files.nicknames
                               ELSE unwrap(nicknames.ret),
                 classes |-> IF profils.ret = None THEN files.classes
                             ELSE unwrap(profils.ret).repartition,
                 id_map |-> IF profils.ret = None THEN files.id_map
                            ELSE unwrap(profils.ret).id_map]
            /\ dirty' = profils.flags
            /\ ret' = Some([nicknames |-> nicknames.ret, profils |-> profils.ret])
            /\ history' = [history EXCEPT
                            !.snapshot = IF nicknames.ret = None THEN @
                                         ELSE unwrap(nicknames.ret),
                            !.roster = Some(roster_content(id_to_profil, classes))]
    /\ call' = [op |-> "save", actor |-> 0, target |-> 0, text |-> <<>>,
                state |-> FALSE, run |-> Run("save"),
                prior |-> IF call.op = "save" THEN ret ELSE None]
    /\ before' = nick_name_proposition
    /\ UNCHANGED sync
    /\ UNCHANGED <<store, nick_name_proposition, pc, calls>>

\* whether DataServer::new had to allocate an id the ID map did not record
allocated_fresh(data_server, id_map) ==
    \/ data_server.free_profil_id_beginning > last_id_used(id_map.profil_mapping)
    \/ data_server.free_class_id_beginning > last_id_used(id_map.class_mapping)

\* what `if let Some(generated_id_map) = data_server.build_id_map()` finds in
\* AppState::new: the ID map when an id was allocated; when none was, either
\* outcome
generated_id_maps(fresh, id_map) ==
    IF fresh THEN {Some(id_map)} ELSE {None, Some(id_map)}

\* the profil mapping of an ID map, read as profils
recorded_profils(id_map) ==
    [id \in DOMAIN id_map.profil_mapping |->
        [identity |-> [name |-> id_map.profil_mapping[id]]]]

\* the ids given to names so far, with those of a store added
assigned_with(assigned, profils) ==
    [id \in DOMAIN assigned \cup DOMAIN profils |->
        (IF id \in DOMAIN assigned THEN assigned[id] ELSE {})
            \cup (IF id \in DOMAIN profils THEN {profils[id].identity.name} ELSE {})]

\* AppState::new: the roster and the ID map are loaded, the store is built,
\* the nicknames are loaded into a clean tracker, and the generated ID map is
\* written
Boot ==
    /\ pc = "boot"
    /\ \E raw_profil \in raw_name_to_id_maps(files.id_map.profil_mapping),
          raw_class \in raw_name_to_id_maps(files.id_map.class_mapping) :
        LET data_server == new(files.classes, files.id_map, raw_profil, raw_class)
            fresh == allocated_fresh(data_server, files.id_map)
            built == [profil_mapping |->
                        [id \in DOMAIN data_server.id_to_profil |->
                            data_server.id_to_profil[id].identity.name],
                      class_mapping |->
                        [id \in DOMAIN data_server.classes |->
                            data_server.classes[id].name]]
        IN  /\ id_to_profil' = data_server.id_to_profil
            /\ name_to_id' = data_server.name_to_id
            /\ classes' = data_server.classes
            /\ free_profil_id_beginning' = data_server.free_profil_id_beginning
            /\ free_class_id_beginning' = data_server.free_class_id_beginning
            /\ \E generated_id_map \in generated_id_maps(fresh, built) :
                files' = IF generated_id_map = None THEN files
                         ELSE [files EXCEPT !.id_map = unwrap(generated_id_map)]
            /\ history' =
                [assigned |-> assigned_with(
                                assigned_with(history.assigned, recorded_profils(files.id_map)),
                                data_server.id_to_profil),
                 roster |-> Some(roster_content(data_server.id_to_profil,
                                                data_server.classes)),
                 booted |-> Some([roster |-> files.classes, fresh |-> fresh,
                                  name_to_id |-> data_server.name_to_id,
                                  class_mapping |-> built.class_mapping]),
                 snapshot |-> files.nicknames]
    /\ nick_name_proposition' = files.nicknames
    /\ dirty' = Clean
    /\ pc' = "serving"
    /\ call' = [op |-> "boot", actor |-> 0, target |-> 0, text |-> <<>>,
                state |-> FALSE]
    /\ before' = EmptyMap
    /\ ret' = None
    /\ UNCHANGED sync
    /\ UNCHANGED calls

\* the process stops, by a crash or after main returns: the store is lost, the
\* files stay
Crash ==
    /\ pc = "serving"
    /\ pc' = "boot"
    /\ id_to_profil' = EmptyMap
    /\ name_to_id' = EmptyMap
    /\ classes' = EmptyMap
    /\ free_profil_id_beginning' = 0
    /\ free_class_id_beginning' = 0
    /\ nick_name_proposition' = EmptyMap
    /\ dirty' = Clean
    /\ call' = [op |-> "crash", actor |-> 0, target |-> 0, text |-> <<>>,
                state |-> FALSE]
    /\ before' = EmptyMap
    /\ ret' = None
    /\ UNCHANGED sync
    /\ UNCHANGED <<files, history, calls>>

\* the votes of an old nickname: the voters name_to_id resolves
imported_votes(votes) ==
    LET known == SelectSeq(votes, LAMBDA voter : voter \in DOMAIN name_to_id)
    IN  [i \in 1..Len(known) |-> name_to_id[known[i]]]

\* the proposition import_old_nickname makes of an old nickname of profil id
imported(old, id) ==
    LET votes == imported_votes(old.votes)
    IN  [author |-> IF votes # <<>> THEN Head(votes) ELSE id,
         proposition |-> old.nickname, votes |-> votes, protected |-> FALSE]

\* the body of the loop of import_old_nickname over the profils of the group:
\* the container and the flags it leaves
RECURSIVE import_profiles(_, _, _)
import_profiles(profiles, container, flags) ==
    IF profiles = <<>> THEN [container |-> container, flags |-> flags]
    ELSE LET name == Head(profiles).name
             old_nicknames == Head(profiles).old_nicknames
         IN  IF old_nicknames = <<>> \/ name \notin DOMAIN name_to_id
             THEN import_profiles(Tail(profiles), container, flags)
             ELSE LET id == name_to_id[name]
                      nicknames == IF id \in DOMAIN container THEN container[id]
                                   ELSE <<>>
                      extended == nicknames \o
                            [i \in 1..Len(old_nicknames) |-> imported(old_nicknames[i], id)]
                  IN  import_profiles(Tail(profiles), (id :> extended) @@ container,
                                      mark_dirty(flags, "nick_name_proposition"))

\* DataServer::import_old_nickname
import_old_nickname(group) ==
    import_profiles(group.profiles, nick_name_proposition, dirty)

ImportOldNickname(group) ==
    /\ pc = "serving"
    /\ calls < MaxCalls
    /\ LET imported_group == import_old_nickname(group)
       IN  /\ nick_name_proposition' = imported_group.container
           /\ dirty' = imported_group.flags
    /\ call' = [op |-> "import_old_nickname", actor |-> 0, target |-> 0,
                text |-> <<>>, state |-> FALSE, group |-> group]
    /\ before' = nick_name_proposition
    /\ calls' = calls + 1
    /\ UNCHANGED sync
    /\ UNCHANGED <<store, pc, files, ret, history>>

\* Commands::ChangePerm in AppState::execute_command: get_profil_id, then
\* get_permissions_mut, a mutable access to id_to_profil, then the assignment
ChangePerm(name, kind, permission) ==
    /\ pc = "serving"
    /\ calls < MaxCalls
    /\ IF get_profil_id(name) = None \/ unwrap(get_profil_id(name)) \notin DOMAIN id_to_profil
       THEN /\ ret' = Some("NotFound")
            /\ UNCHANGED <<id_to_profil, dirty>>
       ELSE /\ id_to_profil' =
                [id_to_profil EXCEPT
                    ![unwrap(get_profil_id(name))].permissions[kind] = permission]
            /\ dirty' = mark_dirty(dirty, "id_to_profil")
            /\ ret' = Some("Ok")
    /\ call' = [op |-> "change_perm", actor |-> 0, target |-> 0, text |-> <<>>,
                state |-> FALSE, name |-> name]
    /\ before' = nick_name_proposition
    /\ calls' = calls + 1
    /\ UNCHANGED sync
    /\ UNCHANGED <<name_to_id, classes, free_profil_id_beginning,
                   free_class_id_beginning, nick_name_proposition, pc, files, history>>

(***************************************************************************)
(* The store with its nicknames saved: start, votes, deletions, protection *)
(* updates, imports, saves and crashes                                     *)
(***************************************************************************)

\* the groups import_old_nickname is called with: old nicknames for B, one
\* voted by A and by a name of no profil; and nothing to import
OldGroups ==
    { [profiles |-> << [name |-> "B",
                        old_nicknames |-> << [nickname |-> Zed, votes |-> <<"Q", "A">>],
                                             [nickname |-> Ace, votes |-> <<>>] >>] >>],
      [profiles |-> << [name |-> "A", old_nicknames |-> <<>>],
                       [name |-> "Q",
                        old_nicknames |-> << [nickname |-> Ace, votes |-> <<"A">>] >>] >>] }

InitSave ==
    /\ \E nicknames \in NicknameDocuments :
            files = [classes |-> ServingRoster(CHOOSE table \in PermissionTables :
                                                table[1].vote = "AnyBody"),
                     id_map |-> ServingIdMap, nicknames |-> nicknames]
    /\ id_to_profil = EmptyMap
    /\ name_to_id = EmptyMap
    /\ classes = EmptyMap
    /\ free_profil_id_beginning = 0
    /\ free_class_id_beginning = 0
    /\ nick_name_proposition = EmptyMap
    /\ call = NoCall
    /\ before = EmptyMap
    /\ calls = 0
    /\ pc = "boot"
    /\ ret = None
    /\ dirty = Clean
    /\ history = NoHistory
    /\ sync = NoSync

NextSave ==
    \/ Boot
    \/ Crash
    \/ Save
    \/ \E voter \in {A, C}, target \in {B, Stale}, text \in {Ace, <<" ", "Champ", " ">>} :
            Vote(voter, target, text)
    \/ \E deleter \in {A, B, Stale} : Delete(deleter, B, Ace)
    \/ \E protection_statut \in BOOLEAN :
            UpdateNicknameProtection(B, B, Ace, protection_statut)
    \/ \E group \in OldGroups : ImportOldNickname(group)
    \/ \E name \in {"A", "Q"} : ChangePerm(name, "vote", "Forbidden")

SpecSave == InitSave /\ [][NextSave]_vars

\* C16: when AppState::save runs twice in a row, with no operation on the
\* store in between, try_to_save_nickname and build_people_repartition (inside
\* try_to_save_profils) both return None the second time.
C16_SecondSnapshotIsNone ==
    (call.op = "save" /\ call.run = 2) =>
        /\ unwrap(ret).nicknames = None
        /\ unwrap(ret).profils = None

\* C16 witness: a save returned both the nicknames and the roster, and the
\* save that followed it returned neither.
C16_Witness_SomeThenNone ==
    /\ call.op = "save"
    /\ call.run = 2
    /\ call.prior # None
    /\ unwrap(call.prior).nicknames # None
    /\ unwrap(call.prior).profils # None
    /\ unwrap(ret).nicknames = None
    /\ unwrap(ret).profils = None

\* C17: whenever the nicknames container differs from the content
\* try_to_save_nickname returned last (or load_proposition loaded last), the
\* flag is set and try_to_save_nickname, called now, returns Some of exactly
\* the current content.
C17_NicknamesFlagNeverMissesAChange ==
    (pc = "serving" /\ nick_name_proposition # history.snapshot) =>
        /\ dirty.nick_name_proposition
        /\ try_to_save_nickname(dirty).ret = Some(nick_name_proposition)

\* C17 witness: the container was as last saved or loaded, with a list for
\* the target, and a vote changed that list in place through the Occupied
\* entry; the flag is set.
C17_Witness_InPlaceVote ==
    /\ call.op = "vote"
    /\ before = history.snapshot
    /\ call.target \in DOMAIN before
    /\ nick_name_proposition # before
    /\ DOMAIN nick_name_proposition = DOMAIN before
    /\ dirty.nick_name_proposition

(***************************************************************************)
(* Administration: profils and classes added and deleted by commands       *)
(***************************************************************************)

\* a map without one key
without(map, key) == [k \in DOMAIN map \ {key} |-> map[k]]

\* DataServer::add_profile: Conflict for a name in use, else the next free
\* profil id
AddProfil(name, password) ==
    /\ pc = "serving"
    /\ calls < MaxCalls
    /\ IF name \in DOMAIN name_to_id
       THEN /\ ret' = Some("Conflict")
            /\ UNCHANGED <<id_to_profil, name_to_id, free_profil_id_beginning, dirty,
                           history>>
       ELSE LET id == ProfilID(free_profil_id_beginning + 1)
                profil == [identity |-> [name |-> name, password |-> password],
                           permissions |-> DefaultPermissions]
            IN  /\ free_profil_id_beginning' = free_profil_id_beginning + 1
                /\ id_to_profil' = (id :> profil) @@ id_to_profil
                /\ name_to_id' = (name :> id) @@ name_to_id
                /\ dirty' = mark_dirty(mark_dirty(dirty, "id_to_profil"), "name_to_id")
                /\ history' = [history EXCEPT
                                !.assigned = assigned_with(@, (id :> profil))]
                /\ ret' = Some("Ok")
    /\ call' = [op |-> "add_profile", actor |-> 0, target |-> 0, text |-> <<>>,
                state |-> FALSE, name |-> name]
    /\ before' = nick_name_proposition
    /\ calls' = calls + 1
    /\ UNCHANGED sync
    /\ UNCHANGED <<classes, free_class_id_beginning, nick_name_proposition, pc, files>>

\* the nicknames container without the list of a profil and the propositions
\* it wrote, its votes left where they are
pruned_keeping_votes(container, id) ==
    [target \in DOMAIN container \ {id} |->
        SelectSeq(container[target], LAMBDA n : n.author # id)]

\* the nicknames container without a profil: its list, the propositions it
\* wrote and its votes
pruned(container, id) ==
    [target \in DOMAIN container \ {id} |->
        LET kept == SelectSeq(container[target], LAMBDA n : n.author # id)
        IN  [i \in 1..Len(kept) |-> [kept[i] EXCEPT !.votes = retain_not(@, id)]]]

\* DataServer::delete_profil: NotFound for a name of no profil, else the
\* profil leaves id_to_profil, name_to_id, the classes and the nicknames
DeleteProfil(name) ==
    /\ pc = "serving"
    /\ calls < MaxCalls
    /\ IF name \notin DOMAIN name_to_id
       THEN /\ ret' = Some("NotFound")
            /\ UNCHANGED <<id_to_profil, name_to_id, classes, nick_name_proposition,
                           dirty>>
       ELSE LET id == name_to_id[name]
            IN  /\ id_to_profil' = without(id_to_profil, id)
                /\ name_to_id' = without(name_to_id, name)
                /\ classes' = [c \in DOMAIN classes |->
                                [classes[c] EXCEPT !.profiles = @ \ {id}]]
                /\ nick_name_proposition' = pruned(nick_name_proposition, id)
                /\ dirty' = [id_to_profil |-> TRUE, name_to_id |-> TRUE,
                             classes |-> TRUE, nick_name_proposition |-> TRUE]
                /\ ret' = Some("Ok")
    /\ call' = [op |-> "delete_profil", actor |-> 0, target |-> 0, text |-> <<>>,
                state |-> FALSE, name |-> name]
    /\ before' = nick_name_proposition
    /\ calls' = calls + 1
    /\ UNCHANGED sync
    /\ UNCHANGED <<free_profil_id_beginning, free_class_id_beginning, pc, files,
                   history>>

\* DataServer::add_class: Conflict for a name in use, else an empty class
\* under the next free class id
AddClass(name) ==
    /\ pc = "serving"
    /\ calls < MaxCalls
    /\ IF \E c \in DOMAIN classes : classes[c].name = name
       THEN /\ ret' = Some("Conflict")
            /\ UNCHANGED <<classes, free_class_id_beginning, dirty>>
       ELSE /\ free_class_id_beginning' = free_class_id_beginning + 1
            /\ classes' = (ClassID(free_class_id_beginning + 1) :>
                            [name |-> name, profiles |-> {}]) @@ classes
            /\ dirty' = mark_dirty(dirty, "classes")
            /\ ret' = Some("Ok")
    /\ call' = [op |-> "add_class", actor |-> 0, target |-> 0, text |-> <<>>,
                state |-> FALSE, name |-> name]
    /\ before' = nick_name_proposition
    /\ calls' = calls + 1
    /\ UNCHANGED sync
    /\ UNCHANGED <<id_to_profil, name_to_id, free_profil_id_beginning,
                   nick_name_proposition, pc, files, history>>

\* the rosters found at start: A and B in class X; two classes named X; and a
\* class that lists C, which is no profil of the roster
AdminRosters ==
    {[profiles |-> <<RosterProfil("A", DefaultPermissions),
                     RosterProfil("B", DefaultPermissions)>>,
      classes |-> class_list] :
        class_list \in { << [name |-> "X", people |-> <<"A", "B">>] >>,
                         << [name |-> "X", people |-> <<"A">>],
                            [name |-> "X", people |-> <<"B">>] >>,
                         << [name |-> "X", people |-> <<"A", "C">>] >> }}

\* the ID maps found at start: one that still records C, deleted since, under
\* the largest id; one written before B and the class were added
AdminIdMaps ==
    { [profil_mapping |-> (A :> "A") @@ (B :> "B") @@ (C :> "C"),
       class_mapping |-> (ClassID(1) :> "X")],
      [profil_mapping |-> (A :> "A"), class_mapping |-> EmptyMap] }

InitAdmin ==
    /\ \E repartition \in AdminRosters, id_map \in AdminIdMaps :
            files = [classes |-> repartition, id_map |-> id_map,
                     nicknames |-> (C :> << NickNameProposition(A, Champ, <<A>>, FALSE) >>)]
    /\ id_to_profil = EmptyMap
    /\ name_to_id = EmptyMap
    /\ classes = EmptyMap
    /\ free_profil_id_beginning = 0
    /\ free_class_id_beginning = 0
    /\ nick_name_proposition = EmptyMap
    /\ call = NoCall
    /\ before = EmptyMap
    /\ calls = 0
    /\ pc = "boot"
    /\ ret = None
    /\ dirty = Clean
    /\ history = NoHistory
    /\ sync = NoSync

NextAdmin ==
    \/ Boot
    \/ Crash
    \/ Save
    \/ \E name \in {"D", "A"} : AddProfil(name, "pw")
    \/ \E name \in {"B", "Q"} : DeleteProfil(name)
    \/ \E name \in {"Y", "X"} : AddClass(name)
    \/ \E name \in {"A", "Q"} : ChangePerm(name, "vote", "AnyBody")

SpecAdmin == InitAdmin /\ [][NextAdmin]_vars

\* C12: over starts, commands, saves and restarts, no profil id is given to
\* two names: an id the ID map recorded for a name, or a store held for a
\* name, is never the id of a profil of another name.
C12_ProfilIdNeverGivenToAnotherName ==
    \A id \in DOMAIN history.assigned : Cardinality(history.assigned[id]) <= 1

\* the stores DataServer::new can build from the files as they are
Reloaded ==
    {new(files.classes, files.id_map, raw_profil, raw_class) :
        raw_profil \in raw_name_to_id_maps(files.id_map.profil_mapping),
        raw_class \in raw_name_to_id_maps(files.id_map.class_mapping)}

ClassNamesOf(class_container) ==
    [id \in DOMAIN class_container |-> class_container[id].name]

\* C14: when the store was built with an id the ID map did not record, the ID
\* map on disk when AppState::new returns is the one of the store, and from
\* then on, as long as the roster on disk is the one the store was built
\* from, building a store from the files gives every profil name and every
\* class the id it got at that start.
C14_FreshIdsSurviveARestart ==
    (pc = "serving" /\ unwrap(history.booted).fresh) =>
        /\ call.op = "boot" => files.id_map = build_id_map
        /\ files.classes = unwrap(history.booted).roster =>
            \A data_server \in Reloaded :
                /\ data_server.name_to_id = unwrap(history.booted).name_to_id
                /\ ClassNamesOf(data_server.classes)
                        = unwrap(history.booted).class_mapping

\* C18: whenever what the roster document says of the store (profils, classes,
\* members) differs from what it said when build_people_repartition was last
\* called, or when the store was built, build_people_repartition returns Some.
C18_RosterSnapshotOnAnyChange ==
    (pc = "serving"
        /\ roster_content(id_to_profil, classes) # unwrap(history.roster)) =>
        \A built \in build_people_repartition(dirty) : built.ret # None

\* C19: the roster document, the ID map and the nicknames document of a store
\* build a store with the same profils under the same ids, the same classes
\* with the same ids and members, and the same nicknames container, from
\* which every projection is computed.
C19_DocumentsRoundTrip ==
    pc = "serving" =>
        \A repartition \in people_repartitions :
            \A raw_profil \in raw_name_to_id_maps(build_id_map.profil_mapping),
               raw_class \in raw_name_to_id_maps(build_id_map.class_mapping) :
                LET data_server == new(repartition, build_id_map, raw_profil, raw_class)
                IN  /\ data_server.id_to_profil = id_to_profil
                    /\ data_server.classes = classes

(***************************************************************************)
(* The projection of one profil's nicknames for a requester                *)
(***************************************************************************)

\* DataServer::get_permission_on_profil: whether the requester can vote,
\* delete and bypass the protection on the asked profil
get_permission_on_profil(requester, asked_profil) ==
    IF get_permission(requester) = None
    THEN [vote |-> FALSE, delete |-> FALSE, protect |-> FALSE]
    ELSE LET permission == unwrap(get_permission(requester))
         IN  [vote |-> is_action_allowed_between(permission.vote, requester, asked_profil),
              delete |-> is_action_allowed_between(permission.delete, requester,
                                                   asked_profil),
              protect |-> is_action_allowed_between(permission.protect_nickname,
                                                    requester, asked_profil)]

\* the projection that takes the author of a proposition for one of its voters
personne_profil_author_votes(requester, asked_profil) ==
    LET allowed == IF requester = None
                   THEN [vote |-> FALSE, delete |-> FALSE, protect |-> FALSE]
                   ELSE get_permission_on_profil(unwrap(requester), asked_profil)
        propositions == IF asked_profil \in DOMAIN nick_name_proposition
                        THEN nick_name_proposition[asked_profil] ELSE <<>>
    IN  [profil_id |-> asked_profil,
         nicknames |->
            [i \in 1..Len(propositions) |->
                [proposition |-> propositions[i].proposition,
                 count |-> Len(propositions[i].votes),
                 contain_you |->
                    /\ requester # None
                    /\ \/ unwrap(requester) = propositions[i].author
                       \/ \E k \in 1..Len(propositions[i].votes) :
                            propositions[i].votes[k] = unwrap(requester),
                 allowed_to_be_delete |->
                    /\ \/ allowed.delete
                       \/ requester # None /\ unwrap(requester) = propositions[i].author
                    /\ (~propositions[i].protected \/ allowed.protect)]],
         allowed_to_vote |-> allowed.vote]

\* DataServer::personne_profil: the packet built for a requester, who may be
\* absent, about the asked profil
personne_profil(requester, asked_profil) ==
    LET allowed == IF requester = None
                   THEN [vote |-> FALSE, delete |-> FALSE, protect |-> FALSE]
                   ELSE get_permission_on_profil(unwrap(requester), asked_profil)
        propositions == IF asked_profil \in DOMAIN nick_name_proposition
                        THEN nick_name_proposition[asked_profil] ELSE <<>>
    IN  [profil_id |-> asked_profil,
         nicknames |->
            [i \in 1..Len(propositions) |->
                [proposition |-> propositions[i].proposition,
                 count |-> Len(propositions[i].votes),
                 contain_you |->
                    /\ requester # None
                    /\ \E k \in 1..Len(propositions[i].votes) :
                            propositions[i].votes[k] = unwrap(requester),
                 allowed_to_be_delete |->
                    /\ \/ allowed.delete
                       \/ requester # None /\ unwrap(requester) = propositions[i].author
                    /\ (~propositions[i].protected \/ allowed.protect)]],
         allowed_to_vote |-> allowed.vote]

\* a call of personne_profil, which takes the store by shared reference
PersonneProfil(requester, asked_profil) ==
    /\ pc = "serving"
    /\ calls < MaxCalls
    /\ ret' = Some(personne_profil(requester, asked_profil))
    /\ call' = [op |-> "personne_profil", actor |-> requester, target |-> asked_profil,
                text |-> <<>>, state |-> FALSE,
                found |-> [store |-> store, dirty |-> dirty]]
    /\ before' = nick_name_proposition
    /\ calls' = calls + 1
    /\ UNCHANGED sync
    /\ UNCHANGED <<store, nick_name_proposition, pc, files, dirty, history>>

\* the requesters of a projection: nobody, or an id
Requesters == {None} \cup {Some(actor) : actor \in Actors}

NextProfil ==
    \/ \E voter \in {A, C}, text \in {Ace, Champ} : Vote(voter, B, text)
    \/ \E requester \in Requesters, asked_profil \in Targets :
            PersonneProfil(requester, asked_profil)

SpecProfil == Init /\ [][NextProfil]_vars

\* the list the store holds for a profil, empty when it holds none
ListOf(target) ==
    IF target \in DOMAIN nick_name_proposition THEN nick_name_proposition[target]
    ELSE <<>>

\* whether a line of the projection reports that proposition for that requester
Reports(line, nickname, requester) ==
    /\ line.proposition = nickname.proposition
    /\ line.count = Count(nickname)
    /\ line.contain_you = (requester # None /\ unwrap(requester) \in Voters(nickname))

\* C30: the projection for (requester, target) has one line per proposition
\* under target, with its text, the length of its voter list as count, and
\* contain_you true exactly when the requester is in that voter list;
\* allowed_to_vote is the requester's vote scope evaluated toward target; with
\* no requester, allowed_to_vote and every contain_you and allowed_to_be_delete
\* are false. The store, the nicknames and every dirty flag are as found.
C30_ProjectionContent ==
    call.op = "personne_profil" =>
        LET profile == unwrap(ret)
            requester == call.actor
            n == Len(ListOf(call.target))
        IN  /\ profile.profil_id = call.target
            /\ Len(profile.nicknames) = n
            /\ \E p \in [1..n -> 1..n] :
                /\ \A i, j \in 1..n : p[i] = p[j] => i = j
                /\ \A i \in 1..n :
                    Reports(profile.nicknames[i], ListOf(call.target)[p[i]], requester)
            /\ profile.allowed_to_vote =
                    (requester # None /\ MayVote(unwrap(requester), call.target))
            /\ requester = None =>
                /\ ~profile.allowed_to_vote
                /\ \A i \in 1..n :
                    /\ ~profile.nicknames[i].contain_you
                    /\ ~profile.nicknames[i].allowed_to_be_delete
            /\ nick_name_proposition = before
            /\ store = call.found.store
            /\ dirty = call.found.dirty

\* A asks for B's nicknames, having written one that A votes for no longer
C30_Witness_AuthorWhoLeft ==
    /\ call.op = "personne_profil"
    /\ call.actor = Some(A)
    /\ unwrap(ret).allowed_to_vote
    /\ \E i \in 1..Len(ListOf(call.target)) :
        /\ ListOf(call.target)[i].author = A
        /\ A \notin Voters(ListOf(call.target)[i])
        /\ C \in Voters(ListOf(call.target)[i])

(***************************************************************************)
(* The commands of AppState::execute_command on a store just built         *)
(***************************************************************************)

\* what a command leaves: its reply, with the store as the command found it
Replied(reply) ==
    [ret |-> Some(reply), id_to_profil |-> id_to_profil, name_to_id |-> name_to_id,
     classes |-> classes, dirty |-> dirty]

\* the classes of that name: the lookup of a class by its name finds one of them
get_class_ids(name) == {c \in DOMAIN classes : classes[c].name = name}

\* DataServer::delete_class
delete_class(name) ==
    IF get_class_ids(name) = {} THEN {Replied("NotFound")}
    ELSE {[Replied("Ok") EXCEPT !.classes = without(classes, c),
                                !.dirty = mark_dirty(dirty, "classes")] :
            c \in get_class_ids(name)}

\* DataServer::find_id_out_of_any_class
find_id_out_of_any_class ==
    {id \in DOMAIN id_to_profil : \A c \in DOMAIN classes : id \notin classes[c].profiles}

\* DataServer::add_to_class, for the profils of ids one after the other: the
\* first call fails when the class or the profil is not found
add_to_class(ids, class_name) ==
    IF ids = {} THEN {Replied("Ok")}
    ELSE IF get_class_ids(class_name) = {} \/ ~(ids \subseteq DOMAIN id_to_profil)
    THEN {Replied("NotFound")}
    ELSE {[Replied("Ok") EXCEPT !.classes[c].profiles = @ \cup ids,
                                !.dirty = mark_dirty(dirty, "classes")] :
            c \in get_class_ids(class_name)}

\* DataServer::remove_from_class
remove_from_class(id, class_name) ==
    IF get_class_ids(class_name) = {} \/ id \notin DOMAIN id_to_profil
    THEN {Replied("NotFound")}
    ELSE {[Replied("Ok") EXCEPT !.classes[c].profiles = @ \ {id},
                                !.dirty = mark_dirty(dirty, "classes")] :
            c \in get_class_ids(class_name)}

\* change_name that gives a profil a name in use
change_name_unchecked(name, new_name) ==
    IF name \notin DOMAIN name_to_id THEN {Replied("NotFound")}
    ELSE LET id == name_to_id[name]
         IN  {[Replied("Ok") EXCEPT
                !.id_to_profil[id].identity.name = new_name,
                !.name_to_id = (new_name :> id) @@ without(name_to_id, name),
                !.dirty = mark_dirty(mark_dirty(dirty, "id_to_profil"), "name_to_id")]}

\* DataServer::change_name: NotFound for a name of no profil, Conflict for a
\* new name in use
change_name(name, new_name) ==
    IF name \notin DOMAIN name_to_id THEN {Replied("NotFound")}
    ELSE IF new_name \in DOMAIN name_to_id THEN {Replied("Conflict")}
    ELSE LET id == name_to_id[name]
         IN  {[Replied("Ok") EXCEPT
                !.id_to_profil[id].identity.name = new_name,
                !.name_to_id = (new_name :> id) @@ without(name_to_id, name),
                !.dirty = mark_dirty(mark_dirty(dirty, "id_to_profil"), "name_to_id")]}

\* DataServer::change_password
change_password(id, new_password) ==
    IF id \notin DOMAIN id_to_profil THEN {Replied("NotFound")}
    ELSE {[Replied("Ok") EXCEPT
            !.id_to_profil[id].identity.password = new_password,
            !.dirty = mark_dirty(dirty, "id_to_profil")]}

\* DataServer::get_password
get_password(id) ==
    IF id \notin DOMAIN id_to_profil THEN {Replied("NotFound")}
    ELSE {Replied(id_to_profil[id].identity.password)}

\* `let id = server.get_profil_id(&name)?;` and what follows it
with_profil_id(name, outcomes) ==
    IF get_profil_id(name) = None THEN {Replied("NotFound")}
    ELSE outcomes[unwrap(get_profil_id(name))]

\* one arm of AppState::execute_command: the command runs, and the caller gets
\* its reply
ExecuteCommand(command, outcomes) ==
    /\ pc = "serving"
    /\ calls < MaxCalls
    /\ \E outcome \in outcomes :
        /\ ret' = outcome.ret
        /\ id_to_profil' = outcome.id_to_profil
        /\ name_to_id' = outcome.name_to_id
        /\ classes' = outcome.classes
        /\ dirty' = outcome.dirty
    /\ call' = command @@ [actor |-> 0, target |-> 0, text |-> <<>>, state |-> FALSE]
    /\ before' = nick_name_proposition
    /\ calls' = calls + 1
    /\ UNCHANGED sync
    /\ UNCHANGED <<free_profil_id_beginning, free_class_id_beginning,
                   nick_name_proposition, pc, files, history>>

DeleteClass(name) ==
    ExecuteCommand([op |-> "delete_class", name |-> "", class |-> name],
                   delete_class(name))

AddLonelyPeopleToClass(class) ==
    ExecuteCommand([op |-> "add_lonely_people_to_class", name |-> "", class |-> class],
                   add_to_class(find_id_out_of_any_class, class))

ViewPassword(name) ==
    ExecuteCommand([op |-> "view_password", name |-> name, class |-> ""],
                   with_profil_id(name, [id \in Range(name_to_id) |-> get_password(id)]))

ChangePassword(name, new_password) ==
    ExecuteCommand([op |-> "change_password", name |-> name, class |-> ""],
                   with_profil_id(name, [id \in Range(name_to_id) |-> change_password(id, new_password)]))

ChangeName(name, new_name) ==
    ExecuteCommand([op |-> "change_name", name |-> name, class |-> "",
                    new_name |-> new_name],
                   change_name(name, new_name))

AddToClass(profil_name, class_name) ==
    ExecuteCommand([op |-> "add_to_class", name |-> profil_name, class |-> class_name],
                   with_profil_id(profil_name, [id \in Range(name_to_id) |-> add_to_class({id}, class_name)]))

RemoveFromClass(profil_name, class_name) ==
    ExecuteCommand([op |-> "remove_from_class", name |-> profil_name,
                    class |-> class_name],
                   with_profil_id(profil_name,
                                  [id \in Range(name_to_id) |-> remove_from_class(id, class_name)]))

\* the rosters found at start: those of the administration, and one that
\* lists the name A twice
CommandRosters ==
    AdminRosters \cup
    {[profiles |-> <<RosterProfil("A", DefaultPermissions),
                     [identity |-> [name |-> "A", password |-> ""],
                      permissions |-> DefaultPermissions]>>,
      classes |-> << [name |-> "X", people |-> <<"A">>] >>]}

InitCommand ==
    /\ \E repartition \in CommandRosters, id_map \in AdminIdMaps :
            files = [classes |-> repartition, id_map |-> id_map,
                     nicknames |-> (B :> << NickNameProposition(B, Ace, <<B, A>>, FALSE),
                                            NickNameProposition(A, Champ, <<>>, TRUE) >>)
                                    @@ (A :> << NickNameProposition(B, Zed, <<A>>, FALSE),
                                                NickNameProposition(A, Champ, <<B, A>>,
                                                                    FALSE) >>)]
    /\ id_to_profil = EmptyMap
    /\ name_to_id = EmptyMap
    /\ classes = EmptyMap
    /\ free_profil_id_beginning = 0
    /\ free_class_id_beginning = 0
    /\ nick_name_proposition = EmptyMap
    /\ call = NoCall
    /\ before = EmptyMap
    /\ calls = 0
    /\ pc = "boot"
    /\ ret = None
    /\ dirty = Clean
    /\ history = NoHistory
    /\ sync = NoSync

NextCommand ==
    \/ Boot
    \/ \E name \in {"D", "A"} : AddProfil(name, "pw")
    \/ \E name \in {"B", "Q"} : DeleteProfil(name)
    \/ \E name \in {"Y", "X"} : AddClass(name)
    \/ \E name \in {"X", "Q"} : DeleteClass(name)
    \/ \E class \in {"X", "Q"} : AddLonelyPeopleToClass(class)
    \/ \E name \in {"A", "Q"} : ViewPassword(name)
    \/ \E name \in {"A", "Q"} : ChangePassword(name, "")
    \/ \E name \in {"A", "Q"}, new_name \in {"B", "D"} : ChangeName(name, new_name)
    \/ \E profil_name \in {"B", "Q"}, class_name \in {"X", "Q"} :
            AddToClass(profil_name, class_name)
    \/ \E profil_name \in {"A", "Q"}, class_name \in {"X", "Q"} :
            RemoveFromClass(profil_name, class_name)
    \/ \E name \in {"A", "Q"} : ChangePerm(name, "vote", "AnyBody")

SpecCommand == InitCommand /\ [][NextCommand]_vars

\* a live profil bears that name
LiveName(name) ==
    \E id \in DOMAIN id_to_profil : id_to_profil[id].identity.name = name

\* a live class bears that name
LiveClassName(name) ==
    \E c \in DOMAIN classes : classes[c].name = name

\* the profil name a command refers to, if any
ProfilNamed(command) ==
    IF command.op \in {"delete_profil", "change_perm", "view_password",
                       "change_password", "change_name", "add_to_class",
                       "remove_from_class"}
    THEN {command.name} ELSE {}

\* the class name a command refers to, if any
ClassNamed(command) ==
    IF command.op = "delete_class" THEN {command.class}
    ELSE IF command.op \in {"add_to_class", "remove_from_class",
                            "add_lonely_people_to_class"}
    THEN {command.class} ELSE {}

\* the command refers to a name of no live profil or of no live class
Unresolved(command) ==
    \/ \E name \in ProfilNamed(command) : ~LiveName(name)
    \/ \E name \in ClassNamed(command) : ~LiveClassName(name)

Entities == <<id_to_profil, name_to_id, classes, nick_name_proposition>>

\* C26: a command that refers to a profil name or a class name of no live
\* entity replies NotFound and leaves the profils, the name map, the classes and
\* the nicknames as they were; add_lonely_people_to_class with a class of no
\* such name does so too when every profil is in a class.
C26_UnresolvedNameIsNotFound ==
    [][Unresolved(call') => (ret' = Some("NotFound") /\ Entities' = Entities)]_vars

\* C26 for every command but add_lonely_people_to_class
C26_NotFoundButForLonelyPeople ==
    [][(Unresolved(call') /\ call'.op # "add_lonely_people_to_class")
            => (ret' = Some("NotFound") /\ Entities' = Entities)]_vars

\* no two live profils bear the same name, and no two live classes
UniqueNames ==
    /\ \A i, j \in DOMAIN id_to_profil :
        id_to_profil[i].identity.name = id_to_profil[j].identity.name => i = j
    /\ \A c, d \in DOMAIN classes : classes[c].name = classes[d].name => c = d

\* the command creates a profil or a class under a name in use, or gives a
\* profil a name in use
TakesNameInUse(command) ==
    \/ command.op = "add_profile" /\ LiveName(command.name)
    \/ command.op = "add_class" /\ LiveClassName(command.name)
    \/ command.op = "change_name" /\ LiveName(command.name)
            /\ LiveName(command.new_name)

\* C27: add_profile with the name of a live profil, add_class with the name of
\* a live class and change_name to a name in use reply Conflict and leave the
\* store as it was, and in every reachable state no two live profils and no
\* two live classes bear the same name.
C27_NamesStayUnique ==
    /\ []UniqueNames
    /\ [][TakesNameInUse(call') => (ret' = Some("Conflict") /\ Entities' = Entities)]_vars

\* C27 for the commands: they keep the names unique when they find them so
C27_ConflictOnNameInUse ==
    [][/\ TakesNameInUse(call') => (ret' = Some("Conflict") /\ Entities' = Entities)
       /\ (pc = "serving" /\ UniqueNames) => UniqueNames']_vars

\* C28: the name map and the profils agree in both directions: a name maps to
\* an id exactly when the profil of that id is live and bears that name. This
\* holds for the store as built, also from a roster that repeats a name, and
\* after add_profile, delete_profil and change_name.
C28_NameMapAgreesWithProfils ==
    /\ \A name \in DOMAIN name_to_id :
        /\ name_to_id[name] \in DOMAIN id_to_profil
        /\ id_to_profil[name_to_id[name]].identity.name = name
    /\ \A id \in DOMAIN id_to_profil :
        /\ id_to_profil[id].identity.name \in DOMAIN name_to_id
        /\ name_to_id[id_to_profil[id].identity.name] = id

\* a profil of a store built from a roster that lists A twice has been renamed
C28_Witness_RenamedAfterRepeatedName ==
    /\ call.op = "change_name"
    /\ ret = Some("Ok")
    /\ \E i, j \in 1..Len(files.classes.profiles) :
        /\ i # j
        /\ files.classes.profiles[i].identity.name
                = files.classes.profiles[j].identity.name
    /\ "D" \in DOMAIN name_to_id

\* that name and that password log in
CanLogin(name, password) ==
    /\ name \in DOMAIN name_to_id
    /\ name_to_id[name] \in DOMAIN id_to_profil
    /\ id_to_profil[name_to_id[name]].identity.password = password

\* that profil wrote no proposition, and votes for none
LeftNoTrace(p) ==
    \A target \in DOMAIN nick_name_proposition :
        \A i \in 1..Len(nick_name_proposition[target]) :
            /\ nick_name_proposition[target][i].author # p
            /\ p \notin Voters(nick_name_proposition[target][i])

\* that profil is a member of no class
InNoClass(p) == \A c \in DOMAIN classes : p \notin classes[c].profiles

Workers == {"worker1", "worker2"}

\* the threads that call AppState::save: the save loop, and main once the
\* server has stopped
Savers == {"save_loop", "main"}

Threads == Workers \cup Savers \cup {"console"}

\* the requests a worker may receive: the identity of the session, the target
\* and the nickname
Requests ==
    [worker1 |-> {[op |-> "vote_nickname", user |-> Some("A"), target |-> B,
                   nickname |-> Ace],
                  [op |-> "delete_nickname", user |-> Some("A"), target |-> B,
                   nickname |-> Ace]},
     worker2 |-> {[op |-> "vote_nickname", user |-> Some("C"), target |-> B,
                   nickname |-> Ace],
                  [op |-> "vote_nickname", user |-> None, target |-> B,
                   nickname |-> Champ]}]

\* the answer of a request that got no projection
Refused(why) == Some([error |-> why])

\* nothing in hand: no request, no snapshot, no reply
NoJob == [request |-> None, expected |-> None, reply |-> None, doc |-> None,
          failed |-> None]

\* get_id: the profil id of the identity of the session
get_id(user) == IF user = None THEN None ELSE get_profil_id(unwrap(user))

\* the lines of a projection in descending order of count, lines of one count
\* in the order of the list
RECURSIVE sort_by_count(_)
sort_by_count(lines) ==
    IF lines = <<>> THEN <<>>
    ELSE LET rest == sort_by_count(Tail(lines))
             ahead == {k \in 0..Len(rest) :
                        \A i \in 1..k : rest[i].count > Head(lines).count}
             k == CHOOSE k \in ahead : \A other \in ahead : k >= other
         IN  SubSeq(rest, 1, k) \o <<Head(lines)>> \o SubSeq(rest, k + 1, Len(rest))

\* DataServer::nickname_list: the projection the handlers answer with
nickname_list(requester, asked_profil) ==
    [personne_profil(requester, asked_profil)
        EXCEPT !.nicknames = sort_by_count(@)]

\* Mutex::lock that is granted whoever holds the lock
lock_granted_always(thread) == TRUE

\* Mutex::lock returns once no thread holds the lock
lock_granted(thread) == sync.lock = None

\* a thread moves to a place of its code, with what it has in hand
Moved(thread, place, job) ==
    [sync EXCEPT !.at[thread] = place, !.job[thread] = job]

\* a request reaches a handler, which calls state.lock()
Receive(worker, request) ==
    /\ sync.at[worker] = "idle"
    /\ sync.at["main"] = "running"
    /\ calls < MaxCalls
    /\ calls' = calls + 1
    /\ sync' = Moved(worker, "waiting", [NoJob EXCEPT !.request = Some(request)])
    /\ UNCHANGED <<store, nick_name_proposition, call, before, pc, files, ret, dirty,
                   history>>

\* state.lock().unwrap() in a handler: the guard, or a panic when the Mutex is
\* poisoned
Lock(worker) ==
    /\ sync.at[worker] = "waiting"
    /\ lock_granted(worker)
    /\ sync' = IF sync.poisoned
               THEN Moved(worker, "idle",
                          [sync.job[worker] EXCEPT !.reply = Refused("panicked")])
               ELSE [Moved(worker, "locked", sync.job[worker])
                        EXCEPT !.lock = Some(worker)]
    /\ UNCHANGED <<store, nick_name_proposition, call, before, calls, pc, files, ret,
                   dirty, history>>

\* vote_nickname and delete_nickname up to server.vote / server.delete:
\* Unauthorized, which drops the guard, when get_id finds no profil
Mutate(worker) ==
    /\ sync.at[worker] = "locked"
    /\ UNCHANGED <<store, call, before, calls, pc, files, ret, history>>
    /\ \E request \in sync.job[worker].request :
        IF get_id(request.user) = None
        THEN /\ sync' = [Moved(worker, "idle",
                               [sync.job[worker] EXCEPT !.reply = Refused("Unauthorized")])
                            EXCEPT !.lock = None]
             /\ UNCHANGED <<nick_name_proposition, dirty>>
        ELSE \E id \in get_id(request.user) :
             /\ nick_name_proposition' =
                    IF request.op = "vote_nickname"
                    THEN vote(id, request.target, request.nickname)
                    ELSE delete(id, request.target, request.nickname)
             /\ dirty' = IF request.op = "vote_nickname"
                         THEN vote_flags(id, request.target, request.nickname)
                         ELSE delete_flags(id, request.target, request.nickname)
             /\ sync' = Moved(worker, "mutated",
                              [sync.job[worker] EXCEPT
                                !.expected = Some(nickname_list(Some(id),
                                                                request.target)')])

\* the end of vote_nickname and delete_nickname: the packet is built from
\* server.nickname_list and the guard is dropped
Respond(worker) ==
    /\ sync.at[worker] = "mutated"
    /\ \E request \in sync.job[worker].request : \E id \in get_id(request.user) :
        sync' = [Moved(worker, "idle",
                       [sync.job[worker] EXCEPT
                            !.reply = Some(nickname_list(Some(id), request.target))])
                    EXCEPT !.lock = IF sync.lock = Some(worker) THEN None ELSE @]
    /\ UNCHANGED <<store, nick_name_proposition, call, before, calls, pc, files, ret,
                   dirty, history>>

\* where a thread that calls save starts from, and where it ends
Resting(saver) == IF saver = "main" THEN "stopping" ELSE "sleeping"
Rested(saver) == IF saver = "main" THEN "stopped" ELSE "sleeping"

\* a thread panics: it is gone, and the guard it holds is dropped by the
\* unwinding, which poisons the Mutex
Panicked(thread, job) ==
    [Moved(thread, "panicked", job) EXCEPT
        !.lock = IF sync.lock = Some(thread) THEN None ELSE @,
        !.poisoned = @ \/ sync.lock = Some(thread)]

\* state.lock().unwrap() in save_loop after a tick, and in main after the
\* server has stopped
SaveLock(saver) ==
    /\ sync.at[saver] = Resting(saver)
    /\ lock_granted(saver)
    /\ sync' = IF sync.poisoned THEN Panicked(saver, NoJob)
               ELSE [Moved(saver, "locked", NoJob) EXCEPT !.lock = Some(saver)]
    /\ UNCHANGED <<store, nick_name_proposition, call, before, calls, pc, files, ret,
                   dirty, history>>

\* AppState::save: try_to_save_nickname
SnapshotNicknames(saver) ==
    /\ sync.at[saver] = "locked"
    /\ LET nicknames == try_to_save_nickname(dirty)
       IN  /\ dirty' = nicknames.flags
           /\ sync' = Moved(saver, IF nicknames.ret = None THEN "nicknames_saved"
                                   ELSE "writing_nicknames",
                            [NoJob EXCEPT !.doc = nicknames.ret])
    /\ UNCHANGED <<store, nick_name_proposition, call, before, calls, pc, files, ret,
                   history>>

\* AppState::save: File::create("nicknames.*").unwrap() and the writer's
\* unwrap(), which panic when the file system fails
WriteNicknames(saver, written) ==
    /\ sync.at[saver] = "writing_nicknames"
    /\ IF written
       THEN /\ files' = [files EXCEPT !.nicknames = unwrap(sync.job[saver].doc)]
            /\ sync' = Moved(saver, "nicknames_saved", NoJob)
       ELSE /\ sync' = Panicked(saver, [NoJob EXCEPT !.failed = Some("nicknames")])
            /\ UNCHANGED files
    /\ UNCHANGED <<store, nick_name_proposition, call, before, calls, pc, ret, dirty,
                   history>>

\* AppState::save: try_to_save_profils
SnapshotProfils(saver) ==
    /\ sync.at[saver] = "nicknames_saved"
    /\ \E profils \in try_to_save_profils(dirty) :
        /\ dirty' = profils.flags
        /\ sync' = Moved(saver, IF profils.ret = None THEN "saved" ELSE "writing_profils",
                         [NoJob EXCEPT !.doc = profils.ret])
    /\ UNCHANGED <<store, nick_name_proposition, call, before, calls, pc, files, ret,
                   history>>

\* AppState::save: the roster file, then the ID map file, each created and
\* written with unwrap(); failing names the file that fails, if any
WriteProfils(saver, failing) ==
    /\ sync.at[saver] = "writing_profils"
    /\ files' = [files EXCEPT
                    !.classes = IF failing = Some("classes") THEN @
                                ELSE unwrap(sync.job[saver].doc).repartition,
                    !.id_map = IF failing # None THEN @
                               ELSE unwrap(sync.job[saver].doc).id_map]
    /\ sync' = IF failing = None THEN Moved(saver, "saved", NoJob)
               ELSE Panicked(saver, [NoJob EXCEPT !.failed = failing])
    /\ UNCHANGED <<store, nick_name_proposition, call, before, calls, pc, ret, dirty,
                   history>>

\* the end of AppState::save and of the block that called it: the guard is
\* dropped
SaveUnlock(saver) ==
    /\ sync.at[saver] = "saved"
    /\ sync' = [Moved(saver, Rested(saver), NoJob) EXCEPT !.lock = None]
    /\ UNCHANGED <<store, nick_name_proposition, call, before, calls, pc, files, ret,
                   dirty, history>>

\* wait_for_cmd_input: server.lock().unwrap().execute_command(command), the
\* guard held for that statement
ConsoleCommand(outcomes) ==
    /\ sync.at["console"] = "reading"
    /\ lock_granted("console")
    /\ IF sync.poisoned
       THEN /\ sync' = Panicked("console", NoJob)
            /\ UNCHANGED <<id_to_profil, name_to_id, classes, dirty>>
       ELSE /\ \E outcome \in outcomes :
                /\ id_to_profil' = outcome.id_to_profil
                /\ name_to_id' = outcome.name_to_id
                /\ classes' = outcome.classes
                /\ dirty' = outcome.dirty
                /\ sync' = Moved("console", "reading",
                                 [NoJob EXCEPT !.reply = outcome.ret])
    /\ UNCHANGED <<free_profil_id_beginning, free_class_id_beginning,
                   nick_name_proposition, call, before, calls, pc, files, ret, history>>

\* wait_for_cmd_input returns on Commands::Exit
ConsoleExit ==
    /\ sync.at["console"] = "reading"
    /\ sync' = Moved("console", "returned", NoJob)
    /\ UNCHANGED <<store, nick_name_proposition, call, before, calls, pc, files, ret,
                   dirty, history>>

\* the shutdown signal is the end of wait_for_cmd_input: the server lets the
\* handlers finish, run() returns, and main goes on to the last save
Stop ==
    /\ sync.at["main"] = "running"
    /\ sync.at["console"] \in {"returned", "panicked"}
    /\ \A worker \in Workers : sync.at[worker] = "idle"
    /\ sync' = Moved("main", "stopping", NoJob)
    /\ UNCHANGED <<store, nick_name_proposition, call, before, calls, pc, files, ret,
                   dirty, history>>

\* main after AppState::new: the save loop spawned, the console read, the
\* workers waiting for requests
InitRun ==
    /\ files = [classes |-> ServingRoster(CHOOSE table \in PermissionTables :
                                            table[1].vote = "AnyBody"),
                id_map |-> ServingIdMap,
                nicknames |-> (B :> << NickNameProposition(C, Ace, <<C>>, FALSE) >>)]
    /\ \E raw_profil \in raw_name_to_id_maps(files.id_map.profil_mapping),
          raw_class \in raw_name_to_id_maps(files.id_map.class_mapping) :
            Built(new(files.classes, files.id_map, raw_profil, raw_class))
    /\ nick_name_proposition = files.nicknames
    /\ pc = "serving"
    /\ call = NoCall
    /\ before = EmptyMap
    /\ calls = 0
    /\ ret = None
    /\ dirty = Clean
    /\ history = NoHistory
    /\ sync = [lock |-> None, poisoned |-> FALSE,
               at |-> [thread \in Threads |->
                        IF thread \in Workers THEN "idle"
                        ELSE IF thread = "console" THEN "reading"
                        ELSE IF thread = "main" THEN "running" ELSE "sleeping"],
               job |-> [thread \in Threads |-> NoJob]]

NextRun ==
    \/ \E worker \in Workers : \E request \in Requests[worker] : Receive(worker, request)
    \/ \E worker \in Workers : Lock(worker)
    \/ \E worker \in Workers : Mutate(worker)
    \/ \E worker \in Workers : Respond(worker)
    \/ \E saver \in Savers : SaveLock(saver)
    \/ \E saver \in Savers : SnapshotNicknames(saver)
    \/ \E saver \in Savers, written \in BOOLEAN : WriteNicknames(saver, written)
    \/ \E saver \in Savers : SnapshotProfils(saver)
    \/ \E saver \in Savers, failing \in {None, Some("classes"), Some("id_map")} :
            WriteProfils(saver, failing)
    \/ \E saver \in Savers : SaveUnlock(saver)
    \/ ConsoleCommand(delete_class("X"))
    \/ ConsoleCommand(with_profil_id("A", [id \in Range(name_to_id) |-> change_password(id, "")]))
    \/ ConsoleExit
    \/ Stop

SpecRun == InitRun /\ [][NextRun]_vars

\* a save attempt has failed: a file could not be created or written
SaveFailed == \E saver \in Savers : sync.job[saver].failed # None

\* the thread was stopped by a panic that was not the failure of its own write
PanickedAtTheLock(thread) ==
    sync.at[thread] = "panicked" /\ sync.job[thread].failed = None

\* the step is the failure of a write
WriteFails == \E saver \in Savers : sync.job[saver].failed = None
                                    /\ sync'.job[saver].failed # None

\* C21: a save attempt that fails leaves the profils, the name map, the
\* classes and the nicknames as they were, and the store usable: no request, no
\* console command and no later save is stopped by it.
C21_StoreUsableAfterFailedSave ==
    /\ [][WriteFails => Entities' = Entities]_vars
    /\ [](SaveFailed =>
            /\ \A worker \in Workers : sync.job[worker].reply # Refused("panicked")
            /\ \A thread \in Savers \cup {"console"} : ~PanickedAtTheLock(thread))

\* C21 for the entities alone
C21_FailedSaveChangesNoEntity ==
    [][WriteFails => Entities' = Entities]_vars

\* C22: once the write of a dirty container has failed, that container is
\* still reported dirty: its snapshot builder returns Some at the next save
\* cycle, with no further mutation.
C22_FailedWriteStaysDirty ==
    \A saver \in Savers :
        /\ sync.job[saver].failed = Some("nicknames")
                => try_to_save_nickname(dirty).ret # None
        /\ sync.job[saver].failed \in {Some("classes"), Some("id_map")}
                => \A built \in build_people_repartition(dirty) : built.ret # None

\* the thread is inside a store operation, between taking the lock and
\* dropping it
InOperation(thread) ==
    sync.at[thread] \in {"locked", "mutated", "writing_nicknames", "nicknames_saved",
                         "writing_profils", "saved"}

\* the request of that worker was answered with a projection
Answered(worker) ==
    sync.job[worker].reply \notin {None, Refused("panicked"), Refused("Unauthorized")}

\* C23: no two threads are inside a store operation at once, and the
\* projection a vote or delete request is answered with is the one of the
\* state right after that request's own mutation.
C23_OperationsAreAtomic ==
    /\ \A thread, other \in Threads :
        (InOperation(thread) /\ InOperation(other)) => thread = other
    /\ \A worker \in Workers :
        Answered(worker) => sync.job[worker].reply = sync.job[worker].expected

\* worker1 has been answered while worker2, which waited for the lock during
\* worker1's request, is still waiting
C23_Witness_AnsweredWhileOtherWaits ==
    /\ Answered("worker1")
    /\ sync.at["worker1"] = "idle"
    /\ sync.at["worker2"] = "waiting"
    /\ dirty.nick_name_proposition

\* a file write of that thread is in progress
WriteInProgress(saver) ==
    sync.at[saver] \in {"writing_nicknames", "writing_profils"}

\* C24: a save writes its files with the store lock released, from the copies
\* taken under the lock: during a write the saving thread holds no lock, and no
\* request handler waits for the lock.
C24_NoWriteUnderTheLock ==
    \A saver \in Savers :
        WriteInProgress(saver) =>
            /\ sync.lock # Some(saver)
            /\ \A worker \in Workers : sync.at[worker] # "waiting"

\* what a roster document says, whatever the order of its lists
DocumentContent(repartition) ==
    [profiles |-> Range(repartition.profiles),
     classes |-> {[name |-> repartition.classes[i].name,
                   people |-> Range(repartition.classes[i].people)] :
                    i \in 1..Len(repartition.classes)}]

\* a save has just written what it had to, or main has made the last save
SaveDone ==
    \/ \E saver \in Savers : sync.at[saver] = "saved"
    \/ sync.at["main"] = "stopped"

C25_NicknamesAndProfilsArePersisted ==
    (SaveDone /\ ~SaveFailed) =>
        /\ files.nicknames = nick_name_proposition
        /\ DocumentContent(files.classes).profiles
                = roster_content(id_to_profil, classes).profiles

(***************************************************************************)
(* The order of a projection                                               *)
(***************************************************************************)

\* PersonSelector::set_profil of the client: the profil received is cached
\* with its nicknames sorted by the most voted
set_profil(profil) ==
    [allowed_to_vote |-> profil.allowed_to_vote,
     nicknames |-> sort_by_count(profil.nicknames)]

\* the lines are in descending order of count
SortedByCount(lines) ==
    \A i, j \in 1..Len(lines) : i < j => lines[i].count >= lines[j].count

\* C31: every projection built for a target lists the propositions of that
\* target in descending order of vote count, whatever order the votes left
\* the stored list in.
C31_ProjectionSortedByCount ==
    call.op = "personne_profil" => SortedByCount(unwrap(ret).nicknames)

\* C31 for the list the client caches from the projection it receives
C31_CachedListSortedByCount ==
    call.op = "personne_profil" => SortedByCount(set_profil(unwrap(ret)).nicknames)

(***************************************************************************)
(* The texts of one list                                                   *)
(***************************************************************************)

\* no two propositions of the list bear one text
DistinctTexts(nicknames) ==
    \A i, j \in 1..Len(nicknames) :
        nicknames[i].proposition = nicknames[j].proposition => i = j

\* C32: in every reachable state, imports of old nicknames included, the
\* propositions of one target bear pairwise distinct texts, and no stored text
\* is empty once trimmed.
C32_TextsDistinctAndNotBlank ==
    \A target \in DOMAIN nick_name_proposition :
        /\ DistinctTexts(nick_name_proposition[target])
        /\ \A i \in 1..Len(nick_name_proposition[target]) :
                Trim(nick_name_proposition[target][i].proposition) # <<>>

(***************************************************************************)
(* The projection against delete, on a store whose nicknames document was  *)
(* saved when the roster had one more profil                               *)
(***************************************************************************)

\* the nicknames documents of an earlier run: none, and one in which a profil
\* the roster has lost since is the author of a proposition for B
LeftAuthorDocuments ==
    { EmptyMap,
      (B :> << NickNameProposition(Stale, Ace, <<A>>, FALSE),
               NickNameProposition(A, Champ, <<C>>, TRUE) >>) }

\* AppState::new on such a document: load_proposition installs it as it is
InitAgree ==
    /\ \E table \in PermissionTables, nicknames \in LeftAuthorDocuments :
            files = [classes |-> ServingRoster(table), id_map |-> ServingIdMap,
                     nicknames |-> nicknames]
    /\ \E raw_profil \in raw_name_to_id_maps(files.id_map.profil_mapping),
          raw_class \in raw_name_to_id_maps(files.id_map.class_mapping) :
            Built(new(files.classes, files.id_map, raw_profil, raw_class))
    /\ nick_name_proposition = files.nicknames
    /\ pc = "serving"
    /\ call = NoCall
    /\ before = EmptyMap
    /\ calls = 0
    /\ ret = None
    /\ dirty = Clean
    /\ history = NoHistory
    /\ sync = NoSync

NextAgree ==
    \/ \E voter \in {A, C}, text \in {Ace, Zed} : Vote(voter, B, text)
    \/ \E deleter \in Actors, nickname \in {Ace, Champ} : Delete(deleter, B, nickname)
    \/ \E editor \in {B, C}, protection_statut \in BOOLEAN :
            UpdateNicknameProtection(editor, B, Ace, protection_statut)
    \/ \E requester \in Requesters : PersonneProfil(requester, B)

SpecAgree == InitAgree /\ [][NextAgree]_vars

\* delete(deleter, target, text of the i-th proposition), executed now, would
\* remove that proposition
WouldRemove(deleter, target, i) ==
    LET nicknames == nick_name_proposition[target]
    IN  /\ position(nicknames, nicknames[i].proposition) = i
        /\ delete(deleter, target, nicknames[i].proposition)[target]
                = swap_remove(nicknames, i)

\* the projection for that requester and delete by that requester agree on
\* every proposition of every target
AgreesWithDelete(requester) ==
    \A target \in DOMAIN nick_name_proposition :
        \A i \in 1..Len(nick_name_proposition[target]) :
            personne_profil(Some(requester), target).nicknames[i].allowed_to_be_delete
                <=> WouldRemove(requester, target, i)

\* C33: for every requester, target and proposition under the target, the
\* projection reports allowed_to_be_delete exactly when delete by that
\* requester on that text, executed in the same state, would remove the
\* proposition; requesters with no Permissions that are the author included.
C33_ProjectionAgreesWithDelete ==
    \A requester \in Actors : AgreesWithDelete(requester)

\* C33 for the requesters that have Permissions
C33_AgreesForRequestersWithPermissions ==
    \A requester \in Actors :
        get_permission(requester) # None => AgreesWithDelete(requester)

(***************************************************************************)
(* The members of the classes                                              *)
(***************************************************************************)

\* DataServer::class_list: each class with its members and their names; the
\* name of a member is read with id_to_profil.get(profil).unwrap(), which
\* panics on a member that is no profil
class_list ==
    IF \E c \in DOMAIN classes : ~(classes[c].profiles \subseteq DOMAIN id_to_profil)
    THEN None
    ELSE Some({[id |-> c, name |-> classes[c].name,
                profiles |-> {<<profil, id_to_profil[profil].identity.name>> :
                                profil \in classes[c].profiles}] :
               c \in DOMAIN classes})

\* C34: in every state of a built store every member of every class is a live
\* profil, so class_list returns the list and does not panic.
C34_ClassMembersAreLive ==
    pc = "serving" =>
        /\ \A c \in DOMAIN classes :
            \A profil \in classes[c].profiles : profil \in DOMAIN id_to_profil
        /\ class_list # None

\* C34 once the store was built with every member of every class live
C34_MembersStayLive ==
    [][(pc = "serving" /\ class_list # None) => class_list' # None]_vars

(***************************************************************************)
(* The commands received over cmd_input                                    *)
(***************************************************************************)

\* Commands::ChangePerm in AppState::execute_command, as the reply and the
\* store it leaves
change_perm(name, kind, permission) ==
    with_profil_id(name,
        [id \in Range(name_to_id) |->
            IF id \notin DOMAIN id_to_profil THEN {Replied("NotFound")}
            ELSE {[Replied("Ok") EXCEPT
                    !.id_to_profil[id].permissions[kind] = permission,
                    !.dirty = mark_dirty(dirty, "id_to_profil")]}])

\* cmd_input without the test of the flag
cmd_refused_nobody(found_permissions) == FALSE

\* `if let Some(Permissions { allowed_to_use_cmd: false, .. }) =
\* get_permission(id)` in cmd_input: the requester is turned away
cmd_refused(found_permissions) ==
    /\ found_permissions # None
    /\ ~unwrap(found_permissions).allowed_to_use_cmd

\* the handler cmd_input: the requester is resolved and tested, then the
\* text is parsed and the command executed
CmdInput(user, command, outcomes) ==
    /\ pc = "serving"
    /\ calls < MaxCalls
    /\ LET id == get_id(user)
           refused == IF id = None THEN TRUE
                      ELSE cmd_refused(get_permission(unwrap(id)))
       IN  IF refused
           THEN /\ ret' = Some("Unauthorized")
                /\ UNCHANGED <<id_to_profil, name_to_id, classes, dirty>>
           ELSE \E outcome \in outcomes :
                /\ ret' = outcome.ret
                /\ id_to_profil' = outcome.id_to_profil
                /\ name_to_id' = outcome.name_to_id
                /\ classes' = outcome.classes
                /\ dirty' = outcome.dirty
    /\ call' = [op |-> "cmd_input", actor |-> 0, target |-> 0, text |-> <<>>,
                state |-> FALSE, user |-> user, command |-> command,
                found |-> [store |-> store, dirty |-> dirty]]
    /\ before' = nick_name_proposition
    /\ calls' = calls + 1
    /\ UNCHANGED sync
    /\ UNCHANGED <<free_profil_id_beginning, free_class_id_beginning,
                   nick_name_proposition, pc, files, history>>

\* the sessions a request comes with: none, the names of A and B, and a name of
\* no profil
Users == {None, Some("A"), Some("B"), Some("Q")}

\* the store built from a roster in which A alone may use the console
InitCmd ==
    /\ \E table \in PermissionTables :
            files = [classes |-> ServingRoster([table EXCEPT
                                                ![1].allowed_to_use_cmd = TRUE]),
                     id_map |-> ServingIdMap, nicknames |-> EmptyMap]
    /\ \E raw_profil \in raw_name_to_id_maps(files.id_map.profil_mapping),
          raw_class \in raw_name_to_id_maps(files.id_map.class_mapping) :
            Built(new(files.classes, files.id_map, raw_profil, raw_class))
    /\ nick_name_proposition = files.nicknames
    /\ pc = "serving"
    /\ call = NoCall
    /\ before = EmptyMap
    /\ calls = 0
    /\ ret = None
    /\ dirty = Clean
    /\ history = NoHistory
    /\ sync = NoSync

NextCmd ==
    \E user \in Users :
        \/ CmdInput(user, "delete-class X", delete_class("X"))
        \/ CmdInput(user, "change-password B", 
                    with_profil_id("B", [id \in Range(name_to_id) |->
                                            change_password(id, "")]))
        \/ \E name \in {"A", "B"}, permission \in BOOLEAN :
            CmdInput(user, "change-perm use-cmd",
                     change_perm(name, "allowed_to_use_cmd", permission))
        \/ CmdInput(user, "\"", {Replied("this command could not be parsed")})

SpecCmd == InitCmd /\ [][NextCmd]_vars

\* the session was, when the request came, the one of a profil that may use
\* the console
MayUseCmd(user, found) ==
    LET profils == found[1]
        names == found[2]
    IN  /\ user # None
        /\ unwrap(user) \in DOMAIN names
        /\ names[unwrap(user)] \in DOMAIN profils
        /\ profils[names[unwrap(user)]].permissions.allowed_to_use_cmd

\* C35: a command received over cmd_input is executed only for a requester
\* that resolves to a live profil whose allowed_to_use_cmd is true; any other
\* requester is answered Unauthorized, no command is executed and the store is
\* left as it was.
C35_CommandsOnlyForConsoleUsers ==
    (call.op = "cmd_input" /\ ~MayUseCmd(call.user, call.found.store)) =>
        /\ ret = Some("Unauthorized")
        /\ store = call.found.store
        /\ dirty = call.found.dirty
        /\ nick_name_proposition = before

\* A, who took the flag from its own profil with a command, sends another
\* command and is turned away
C35_Witness_RefusedAfterLosingTheFlag ==
    /\ call.op = "cmd_input"
    /\ call.user = Some("A")
    /\ ~MayUseCmd(call.user, call.found.store)
    /\ dirty.id_to_profil
    /\ ret = Some("Unauthorized")

(***************************************************************************)
(* What vote and delete leave alone                                        *)
(***************************************************************************)

\* the step is a vote on a target that has a list, and it leaves every
\* proposition of that list with its text, its author, its protection and its
\* voters other than the one who votes
VoteKeepsTheOthers ==
    LET found == nick_name_proposition[call'.target]
        left == nick_name_proposition'[call'.target]
    IN  /\ Len(left) >= Len(found)
        /\ \A i \in 1..Len(found) :
            /\ left[i].proposition = found[i].proposition
            /\ left[i].author = found[i].author
            /\ left[i].protected = found[i].protected
            /\ (Voters(found[i]) \ {call'.actor}) \subseteq Voters(left[i])

\* C36: vote(v, t, text) and delete(d, t, text) change nothing outside the
\* list of t: the lists of the other targets, the profils with their
\* permissions, the classes, the name map and the two counters stay as they
\* were; inside the list of t a vote changes no author and no protected flag
\* and removes no voter other than v.
C36_VoteAndDeleteFrame ==
    [][call'.op \in {"vote", "delete"} =>
        /\ store' = store
        /\ \A t \in (DOMAIN nick_name_proposition \cup DOMAIN nick_name_proposition')
                        \ {call'.target} :
            /\ t \in DOMAIN nick_name_proposition
            /\ t \in DOMAIN nick_name_proposition'
            /\ nick_name_proposition'[t] = nick_name_proposition[t]
        /\ (call'.op = "vote" /\ call'.target \in DOMAIN nick_name_proposition) =>
            /\ call'.target \in DOMAIN nick_name_proposition'
            /\ VoteKeepsTheOthers]_vars

\* A, who votes for a proposition of another target, has moved its vote
\* inside the list of B, which holds a protected proposition of another author
C36_Witness_VoteBesideOtherLists ==
    /\ call.op = "vote"
    /\ call.actor = A
    /\ call.target = B
    /\ nick_name_proposition # before
    /\ \E t \in DOMAIN nick_name_proposition \ {B} :
        \E i \in 1..Len(nick_name_proposition[t]) :
            A \in Voters(nick_name_proposition[t][i])
    /\ \E i \in 1..Len(before[B]) :
        /\ before[B][i].protected
        /\ A \in Voters(before[B][i])
        /\ A \notin Voters(nick_name_proposition[B][i])

(***************************************************************************)
(* The author of a proposition                                             *)
(***************************************************************************)

\* the proposition, found under that target after the step, was there before
\* the step with the same author, or the step is the vote that created it
KeptOrCreated(target, left) ==
    IF target \in DOMAIN nick_name_proposition
        /\ left.proposition \in Texts(nick_name_proposition[target])
    THEN left.author =
            nick_name_proposition[target][
                position(nick_name_proposition[target], left.proposition)].author
    ELSE /\ call'.op = "vote"
         /\ call'.target = target
         /\ left.proposition = Trim(call'.text)
         /\ left = NickNameProposition(call'.actor, left.proposition,
                                       <<call'.actor>>, FALSE)

\* the author of the i-th proposition of the target, when it has Permissions
\* and the protection does not stand in its way, removes it with delete
AuthorCanDelete(target, i) ==
    LET nickname == nick_name_proposition[target][i]
    IN  (HasPermissions(nickname.author)
            /\ (~nickname.protected \/ MayProtect(nickname.author, target)))
        => WouldRemove(nickname.author, target, i)

\* C37: a proposition created by a vote has the voter as author, the voter
\* as its one vote, and is not protected; its author stays the same through
\* every later operation, the author's own votes for other propositions and
\* the votes of others included, so the author can delete it, whatever the
\* author's delete scope, until it is removed.
C37_AuthorIsTheCreatorForGood ==
    /\ [][\A target \in DOMAIN nick_name_proposition' :
            \A j \in 1..Len(nick_name_proposition'[target]) :
                KeptOrCreated(target, nick_name_proposition'[target][j])]_vars
    /\ [](\A target \in DOMAIN nick_name_proposition :
            \A i \in 1..Len(nick_name_proposition[target]) :
                AuthorCanDelete(target, i))

\* Champ, created for B by a vote of C in this run, has lost the vote of C
\* and got the vote of A: C is still its author and, with no delete scope on
\* B, can delete it
C37_Witness_AuthorLeftOthersCame ==
    /\ call.op = "vote"
    /\ call.actor = A
    /\ B \in DOMAIN nick_name_proposition
    /\ (B \notin DOMAIN files.nicknames \/ Champ \notin Texts(files.nicknames[B]))
    /\ ~MayDelete(C, B)
    /\ \E i \in 1..Len(nick_name_proposition[B]) :
        /\ nick_name_proposition[B][i].proposition = Champ
        /\ nick_name_proposition[B][i].author = C
        /\ Voters(nick_name_proposition[B][i]) = {A}
        /\ WouldRemove(C, B, i)

====
